---- MODULE Spec2Model ----
(***************************************************************************)
(* Model of the session concurrency engine (src/users/session_manager.py), *)
(* of the scheduler runner (src/tools/scheduler.py), of the trigger        *)
(* executor (src/triggers/executor.py), of the trigger manager             *)
(* (src/triggers/manager.py), of the session registry (SessionManager) and  *)
(* of the heartbeat check (src/heartbeat.py).                              *)
(*                                                                         *)
(* The program runs on one asyncio event loop: a coroutine runs atomically *)
(* from one await that really suspends to the next.  Every action below is *)
(* one such atomic stretch of a coroutine.                                 *)
(***************************************************************************)
EXTENDS Integers, Sequences, FiniteSets, TLC

\* ------------------------------------------------------------------ bounds
NumCallers == 2
MaxMsgs == 2
MaxSubmits == 2
NumTasks == 2
MaxTime == 2
MaxRepeat == 1
\* longest agent reply and longest silence marker, in characters
MaxReplyLen == 3
MaxMarkerLen == 2
\* scaled stand-ins for MAX_MESSAGE_LENGTH (4000 characters) and for the 2000
\* characters receive_incoming keeps of a text
MaxMessageLength == 3
MaxBufferedLength == 4
\* calls of create_background_session
MaxExecs == 2
\* concurrent callers of subscribe / unsubscribe, ids the storage hands out
NumSubscribers == 2
MaxSubIds == 3
\* scaled stand-in for MAX_DYNAMIC_SUBSCRIPTIONS (20)
MaxSubscriptions == 2
\* calls of subscribe / unsubscribe
MaxCalls == 4
\* UserSession objects the registry creates
MaxObjects == 2
\* restarts of the process
MaxRestarts == 1
\* text blocks of one submit, follow-up turns of one submit
MaxBlocks == 3
MaxFollowUps == 1
\* dynamic sources registered around one stop_all
MaxSources == 3
\* session keys reset_all may meet
MaxKeys == 3
\* scaled stand-in for the 100 lines kept in recent.jsonl; transcript saves;
\* distinct transcript records
MaxRecent == 2
MaxSaves == 5
NumRecords == 3
\* calls of start / stop on one source
MaxLoopCalls == 4

Callers == 1..NumCallers
NoCaller == 0
TaskIds == 1..NumTasks
NoTask == 0

VARIABLES
    \* ---- UserSession fields
    incoming,        \* self._incoming: the buffer, a sequence of message ids
    is_querying,     \* self._is_querying
    client,          \* self._client: the caller whose client it references, or NoCaller
    query_lock,      \* self._query_lock: the caller holding it, or NoCaller
    lock_waiters,    \* asyncio.Lock's FIFO queue of waiting acquirers
    \* ---- one coroutine per caller of query / query_stream
    pc,              \* where each call is suspended
    kind,            \* "query" or "stream"
    prompt,          \* the buffered messages put into the prompt about to be sent
    interrupted,     \* the local flag `interrupted`
    clientState,     \* the local `client`: "none", "connected", "disconnected"
    result,          \* how the call ended: "none", "ok", the text "error" or "timeout",
                     \* "raised" (an exception) or "cancelled" (a CancelledError)
    \* ---- observation of the agent client and of the environment
    followUp,        \* the call has consumed the buffer into a follow-up prompt
    turnInterrupts,  \* interrupt signals sent in the current turn of the call
    sent,            \* message ids in the order client.query() delivered them
    nextMsg,         \* id of the next message receive_incoming will see
    submits,         \* calls of query / query_stream made so far
    \* ---- scheduler (SchedulerStorage table and SchedulerRunner)
    tasks,           \* scheduled_tasks rows: id -> [scheduled_at, repeat_seconds, status]
    now,             \* datetime.now()
    sched_pc,        \* position of the _loop coroutine
    due,             \* the list get_due() returned, not yet iterated
    cur,             \* the task of the current iteration of _check, or 0
    last,            \* the task whose body was started last, or NoTask
    firedAt,         \* the time at which that execution was started
    execEnded,       \* how it ended: "none" (not yet, or its row was touched since),
                     \* "ok", "raised"
    runs,            \* id -> number of times on_task_due was called for the task
    \* ---- trigger executor: one execute(event) at a time, observed per call
    ex_pc,           \* position of execute(): "idle", "preview", "query", "send", "done"
    event,           \* the TriggerEvent being executed
    reply,           \* what session.query(event.prompt) returned
    content,         \* the local `content`
    ownerSent,       \* texts transport.send_message delivered to the owner
    ownerIncoming,   \* texts appended to the owner's session buffer
    transcripts,     \* results _save_transcript wrote
    returned,        \* "pending", "None", "text" (the value is content), "raised"
    ephemeral_counter, \* SessionManager._ephemeral_counter
    ephemeralLive,   \* the one-shot session exists and is not destroyed
    ex_key,          \* the key (telegram_id) of the one-shot session of the call, or NoKey
    ex_saved,        \* the query of the one-shot session has saved a session id
    ephemeralFiles,  \* the keys k for which the file <k>.session exists
    allocated,       \* the keys create_*_session handed out, in order, over all runs
    restarts,        \* restarts of the process so far
    \* ---- heartbeat runner
    hb_pc,           \* position of _check(): "idle", "query", "send"
    hb_key,          \* the key of the heartbeat session of the last check, or NoKey
    \* ---- the owner's session as the executor's send_to_owner sees it
    bgMsgs,          \* the message ids send_to_owner appended to the owner's buffer
    \* ---- trigger manager
    storage,         \* trigger_subscriptions: the set of rows [id, trigger_type, config]
    dynamic,         \* the keys of self._dynamic: ids with a registered source
    nextSub,         \* the next fresh subscription id
    tm_pc,           \* where each subscribe / unsubscribe call is suspended
    tm_arg,          \* the [trigger_type, config] of a subscribe call
    tm_sub,          \* the subscription id a call in progress works on
    tm_res,          \* how the call ended
    sa_pc,           \* position of start_all()
    sa_list,         \* the rows start_all() has still to start
    unsubDone,       \* ids for which an unsubscribe call has completed
    rolledBack,      \* ids whose subscribe call ended with the error of a failed start
    tm_calls,        \* calls of subscribe / unsubscribe made so far
    builtins_started, \* the builtins whose start() returned in this process run
    \* ---- session registry (SessionManager) for one user on two channels
    sessions,        \* self._sessions: key -> registered UserSession object, or NoObj
    s_key,           \* object -> its session_key
    s_session_id,    \* object -> its _session_id (a continuation token, or NoToken)
    s_incoming,      \* object -> its _incoming buffer is non-empty
    s_turn,          \* object -> "none", "connecting" (lock held, connect() awaited),
                     \* "open" (_client set), "broken" (_client disconnected by destroy),
                     \* "stuck" (no turn, _is_querying left True by a failed connect())
    nextObj,         \* the next object to be created
    session_file,    \* key -> the token in <key>.session, or NoToken
    incoming_file,   \* key -> <key>.incoming exists
    rs_pc,           \* key -> position of reset_session(key): "idle", "disconnecting"
    banned,          \* the user is banned
    unbanning,       \* unban_user is awaiting reset_session
    ret,             \* key -> the object the last get_session(key) since the last
                     \* reset of the key returned, or NoObj
    returned_token,  \* key -> the token of the last ResultMessage of a turn of the
                     \* key since the last reset of the key, or NoToken
    \* ---- the texts of one submit (UserSession.query / query_stream)
    tx_pc,           \* "idle", "recv" (a turn is open), "done"
    tx_kind,         \* "query" or "stream"
    text_parts,      \* text_parts / text_buffer: the texts of the TextBlocks received
    tx_turns,        \* follow-up turns of this submit so far
    answer,          \* what the submit returned (its final yield), or NoAnswer
    \* ---- TriggerManager.stop_all
    sp_pc,           \* "idle", "dynamic", "builtins", "storage", "stopped", "raised"
    sp_dynamic,      \* self._dynamic: the registered source ids, in insertion order
    sp_used,         \* sources registered so far
    sp_snapshot,     \* list(self._dynamic.items()) taken by stop_all
    sp_todo,         \* what is left of the list the current loop of stop_all walks
    stop_log,        \* the calls of stop() and of storage.close(), in call order
    sp_raised,       \* the sources whose stop() raised
    \* ---- SessionManager.reset_all
    ra_pc,           \* "idle", "waiting" (a destroy() awaits its disconnect),
                     \* "done", "raised"
    ra_sessions,     \* self._sessions: the registered sessions, in insertion order
    ra_client,       \* the sessions whose _client is set
    ra_destroyed,    \* the sessions destroy() has completed for
    ra_removed,      \* the sessions removed from the registry
    ra_pos,          \* position of the iterator over self._sessions.values()
    ra_size,         \* size of the dict when the iterator was created
    \* ---- TriggerExecutor._save_transcript
    recent_file,     \* the text of recent.jsonl, a sequence of characters
    saved,           \* the records saved so far, in save order
    \* ---- SchedulerRunner / HeartbeatRunner start and stop, per source
    lp_running,      \* self._running
    lp_task,         \* self._task: the task created last, or NoLoop
    lp_alive,        \* the tasks running _loop() that have not ended
    lp_cancel,       \* the tasks whose cancellation is requested and not delivered
    lp_pc,           \* the caller: "idle", "stopping" (stop() awaits the task),
                     \* "stopped" (stop() has returned, no start() since)
    lp_calls         \* calls of start / stop so far

sessVars == <<incoming, is_querying, client, query_lock, lock_waiters, pc, kind,
              prompt, interrupted, clientState, result, followUp, turnInterrupts,
              sent, nextMsg, submits>>
schedVars == <<tasks, now, sched_pc, due, cur, last, firedAt, execEnded, runs>>
execVars == <<ex_pc, event, reply, content, ownerSent, ownerIncoming, transcripts,
              returned, ephemeral_counter, ephemeralLive, ex_key, ex_saved,
              ephemeralFiles, allocated, restarts, hb_pc, hb_key>>
trigVars == <<storage, dynamic, nextSub, tm_pc, tm_arg, tm_sub, tm_res,
              sa_pc, sa_list, unsubDone, rolledBack, tm_calls, builtins_started>>
regVars == <<sessions, s_key, s_session_id, s_incoming, s_turn, nextObj, session_file,
             incoming_file, rs_pc, banned, unbanning, ret, returned_token>>
ownerVars == <<bgMsgs>>
textVars == <<tx_pc, tx_kind, text_parts, tx_turns, answer>>
stopVars == <<sp_pc, sp_dynamic, sp_used, sp_snapshot, sp_todo, stop_log, sp_raised>>
allVars == <<ra_pc, ra_sessions, ra_client, ra_destroyed, ra_removed, ra_pos, ra_size>>
recentVars == <<recent_file, saved>>
loopVars == <<lp_running, lp_task, lp_alive, lp_cancel, lp_pc, lp_calls>>
moreVars == <<textVars, stopVars, allVars, recentVars, loopVars>>
vars == <<sessVars, schedVars, execVars, trigVars, regVars, ownerVars, moreVars>>

\* What the actions of one component leave alone.
notSess == <<schedVars, execVars, trigVars, regVars, ownerVars, moreVars>>
notSched == <<sessVars, execVars, trigVars, regVars, ownerVars, moreVars>>
notExec == <<sessVars, schedVars, trigVars, regVars, ownerVars, moreVars>>
notTrig == <<sessVars, schedVars, execVars, regVars, ownerVars, moreVars>>
notReg == <<sessVars, schedVars, execVars, trigVars, ownerVars, moreVars>>
oldVars == <<sessVars, schedVars, execVars, trigVars, regVars, ownerVars>>
notText == <<oldVars, stopVars, allVars, recentVars, loopVars>>
notStop == <<oldVars, textVars, allVars, recentVars, loopVars>>
notAll == <<oldVars, textVars, stopVars, recentVars, loopVars>>
notRecent == <<oldVars, textVars, stopVars, allVars, loopVars>>
notLoop == <<oldVars, textVars, stopVars, allVars, recentVars>>

\* ------------------------------------------------------------- helpers
Upd(f, c, v) == [f EXCEPT ![c] = v]

\* ================================================================ session

\* UserSession.__init__ (the buffer file is absent: _load_incoming returns []).
SessInit ==
    /\ incoming = <<>>
    /\ is_querying = FALSE
    /\ client = NoCaller
    /\ query_lock = NoCaller
    /\ lock_waiters = <<>>
    /\ pc = [c \in Callers |-> "idle"]
    /\ kind = [c \in Callers |-> "query"]
    /\ prompt = [c \in Callers |-> <<>>]
    /\ interrupted = [c \in Callers |-> FALSE]
    /\ clientState = [c \in Callers |-> "none"]
    /\ result = [c \in Callers |-> "none"]
    /\ followUp = [c \in Callers |-> FALSE]
    /\ turnInterrupts = [c \in Callers |-> 0]
    /\ sent = <<>>
    /\ nextMsg = 1
    /\ submits = 0

\* receive_incoming(text): appends to the buffer; never blocks, whatever the
\* session is doing.  A message id stands for the stored text, text[:2000].
ReceiveIncoming ==
    /\ nextMsg <= MaxMsgs
    /\ incoming' = Append(incoming, nextMsg)
    /\ nextMsg' = nextMsg + 1
    /\ UNCHANGED <<is_querying, client, query_lock, lock_waiters, pc, kind, prompt,
                   interrupted, clientState, result, followUp, turnInterrupts, sent,
                   submits>>
    /\ UNCHANGED notSess

\* _consume_incoming(): the whole buffer, in order; the buffer is cleared.
ConsumeIncoming == incoming

\* asyncio.Lock.acquire() returns without suspending iff the lock is not held
\* and nobody waits for it.
LockIsFreeNoLock == TRUE

LockIsFree == query_lock = NoCaller /\ lock_waiters = <<>>

\* query(prompt) / query_stream(prompt) up to the first real suspension:
\* the buffer is consumed into full_prompt BEFORE the lock is requested; then
\* either the lock is taken at once (and _is_querying set, connect() awaited)
\* or the call queues for the lock.
Submit(c, k) ==
    /\ pc[c] \in {"idle", "done"}
    /\ submits < MaxSubmits
    /\ kind' = Upd(kind, c, k)
    /\ prompt' = Upd(prompt, c, ConsumeIncoming)
    /\ incoming' = <<>>
    /\ result' = Upd(result, c, "none")
    /\ clientState' = Upd(clientState, c, "none")
    /\ followUp' = Upd(followUp, c, FALSE)
    /\ turnInterrupts' = Upd(turnInterrupts, c, 0)
    /\ interrupted' = Upd(interrupted, c, FALSE)
    /\ IF LockIsFree
          THEN /\ query_lock' = c
               /\ is_querying' = TRUE
               /\ pc' = Upd(pc, c, "connect")
               /\ UNCHANGED lock_waiters
          ELSE /\ lock_waiters' = Append(lock_waiters, c)
               /\ pc' = Upd(pc, c, "wait_lock")
               /\ UNCHANGED <<query_lock, is_querying>>
    /\ submits' = submits + 1
    /\ UNCHANGED <<client, sent, nextMsg>>
    /\ UNCHANGED notSess

\* The lock was released and this call is the first waiter: it takes the lock,
\* sets _is_querying and goes on to connect().
LockAcquired(c) ==
    /\ pc[c] = "wait_lock"
    /\ query_lock = NoCaller
    /\ lock_waiters # <<>> /\ Head(lock_waiters) = c
    /\ query_lock' = c
    /\ lock_waiters' = Tail(lock_waiters)
    /\ is_querying' = TRUE
    /\ pc' = Upd(pc, c, "connect")
    /\ UNCHANGED <<incoming, client, kind, prompt, interrupted, clientState, result,
                   followUp, turnInterrupts, sent, nextMsg, submits>>
    /\ UNCHANGED notSess

\* _create_client() returned: self._client = client; the try block and the
\* timeout are entered and client.query(full_prompt) is awaited.
ConnectOk(c) ==
    /\ pc[c] = "connect"
    /\ clientState' = Upd(clientState, c, "connected")
    /\ client' = c
    /\ pc' = Upd(pc, c, "send")
    /\ UNCHANGED <<incoming, is_querying, query_lock, lock_waiters, kind, prompt,
                   interrupted, result, followUp, turnInterrupts, sent, nextMsg,
                   submits>>
    /\ UNCHANGED notSess

\* _create_client() raised.  The call is outside the try block: neither except
\* clause nor the finally clause runs and the exception reaches the caller.
\* query() holds the lock with `async with`, which releases it; query_stream()
\* acquired it with acquire() and releases it only in the finally clause.
ConnectFail(c) ==
    /\ pc[c] = "connect"
    /\ result' = Upd(result, c, "raised")
    /\ prompt' = Upd(prompt, c, <<>>)
    /\ pc' = Upd(pc, c, "done")
    /\ query_lock' = IF kind[c] = "query" THEN NoCaller ELSE query_lock
    /\ UNCHANGED <<incoming, is_querying, client, lock_waiters, kind, interrupted,
                   clientState, followUp, turnInterrupts, sent, nextMsg, submits>>
    /\ UNCHANGED notSess

\* client.query(prompt) returned, for the initial prompt or a follow-up: the
\* agent has the prompt, a turn is open, interrupted = False.
SendPrompt(c) ==
    /\ pc[c] = "send"
    /\ sent' = sent \o prompt[c]
    /\ prompt' = Upd(prompt, c, <<>>)
    /\ interrupted' = Upd(interrupted, c, FALSE)
    /\ turnInterrupts' = Upd(turnInterrupts, c, 0)
    /\ pc' = Upd(pc, c, "recv")
    /\ UNCHANGED <<incoming, is_querying, client, query_lock, lock_waiters, kind,
                   clientState, result, followUp, nextMsg, submits>>
    /\ UNCHANGED notSess

\* `if not interrupted and self._incoming:` after each message of the stream.
NeedInterruptNoFlag(c) == incoming # <<>>

NeedInterrupt(c) == ~interrupted[c] /\ incoming # <<>>

\* The finally clause up to its await: _is_querying = False, _client = None,
\* then _destroy_client(client) is awaited.
Finally(c, res) ==
    /\ is_querying' = FALSE
    /\ client' = NoCaller
    /\ result' = Upd(result, c, res)
    /\ pc' = Upd(pc, c, "destroy")

\* receive_response() is exhausted: `while self._incoming:` either consumes
\* the buffer into a follow-up prompt and awaits client.query(follow_up), or
\* ends the turns: query() falls into the finally clause, query_stream() first
\* yields its final item.
EndOfTurn(c) ==
    IF incoming # <<>>
       THEN /\ prompt' = Upd(prompt, c, ConsumeIncoming)
            /\ incoming' = <<>>
            /\ followUp' = Upd(followUp, c, TRUE)
            /\ pc' = Upd(pc, c, "send")
            /\ UNCHANGED <<is_querying, client, result>>
       ELSE /\ UNCHANGED <<prompt, incoming, followUp>>
            /\ IF kind[c] = "query"
                  THEN Finally(c, "ok")
                  ELSE /\ pc' = Upd(pc, c, "yield_final")
                       /\ UNCHANGED <<is_querying, client, result>>

\* The loop body's tail for a message that does not end the stream.
AfterMessage(c) ==
    /\ pc' = Upd(pc, c, IF NeedInterrupt(c) THEN "interrupt" ELSE "recv")
    /\ UNCHANGED <<incoming, is_querying, client, query_lock, lock_waiters, kind,
                   prompt, interrupted, clientState, result, followUp, turnInterrupts,
                   sent, nextMsg, submits>>

\* receive_response() delivers an AssistantMessage.  query() collects its text
\* and runs the interrupt check; query_stream() yields each text or tool block
\* to its consumer first (yields = TRUE) and is suspended there.
RecvAssistant(c, yields) ==
    /\ pc[c] = "recv"
    /\ yields => kind[c] = "stream"
    /\ IF yields
          THEN /\ pc' = Upd(pc, c, "yielded")
               /\ UNCHANGED <<incoming, is_querying, client, query_lock, lock_waiters,
                              kind, prompt, interrupted, clientState, result, followUp,
                              turnInterrupts, sent, nextMsg, submits>>
          ELSE AfterMessage(c)
    /\ UNCHANGED notSess

\* The consumer of query_stream() asks for the next item: the generator goes on
\* after its yield to the interrupt check.
ResumeAfterYield(c) ==
    /\ pc[c] = "yielded"
    /\ AfterMessage(c)
    /\ UNCHANGED notSess

\* receive_response() delivers the ResultMessage, which ends the stream.  The
\* interrupt check runs for it as for any message.
RecvResult(c) ==
    /\ pc[c] = "recv"
    /\ IF NeedInterrupt(c)
          THEN /\ pc' = Upd(pc, c, "interrupt_end")
               /\ UNCHANGED <<incoming, is_querying, client, prompt, result, followUp>>
          ELSE EndOfTurn(c)
    /\ UNCHANGED <<query_lock, lock_waiters, kind, interrupted, clientState,
                   turnInterrupts, sent, nextMsg, submits>>
    /\ UNCHANGED notSess

\* client.interrupt() returned: interrupted = True; the loop goes on, or, after
\* the ResultMessage, ends.
InterruptOk(c) ==
    /\ pc[c] \in {"interrupt", "interrupt_end"}
    /\ interrupted' = Upd(interrupted, c, TRUE)
    /\ turnInterrupts' = Upd(turnInterrupts, c, turnInterrupts[c] + 1)
    /\ IF pc[c] = "interrupt"
          THEN /\ pc' = Upd(pc, c, "recv")
               /\ UNCHANGED <<incoming, is_querying, client, prompt, result, followUp>>
          ELSE EndOfTurn(c)
    /\ UNCHANGED <<query_lock, lock_waiters, kind, clientState, sent, nextMsg, submits>>
    /\ UNCHANGED notSess

\* The awaits on the agent client inside the try block.
AgentCallPcs == {"send", "recv", "interrupt", "interrupt_end"}

\* `except TimeoutError` / `except Exception`: query() returns the error text
\* through the finally clause; query_stream() yields it as its final item.
Caught(c, res) ==
    /\ prompt' = Upd(prompt, c, <<>>)
    /\ IF kind[c] = "query"
          THEN Finally(c, res)
          ELSE /\ pc' = Upd(pc, c, "yield_err")
               /\ result' = Upd(result, c, res)
               /\ UNCHANGED <<is_querying, client>>
    /\ UNCHANGED <<incoming, query_lock, lock_waiters, kind, interrupted, clientState,
                   followUp, turnInterrupts, sent, nextMsg, submits>>

\* An agent-client call inside the try block raises.
AgentFail(c) ==
    /\ pc[c] \in AgentCallPcs
    /\ Caught(c, "error")
    /\ UNCHANGED notSess

\* asyncio.timeout(QUERY_TIMEOUT_SECONDS) expires while the call is suspended
\* in an agent-client call of the initial turn or of a follow-up turn.
Timeout(c) ==
    /\ pc[c] \in AgentCallPcs
    /\ Caught(c, "timeout")
    /\ UNCHANGED notSess

\* asyncio.timeout() expires while query_stream() is suspended at a yield inside
\* the timeout block (a text or tool item, or the final item).  The timeout
\* cancels the running task, which is then executing the consumer: the
\* CancelledError is raised in the consumer, not in the generator, so neither
\* except clause runs and no error text is yielded.  The abandoned generator is
\* closed by the event loop's finalizer, which runs the finally clause.
TimeoutAtYield(c) ==
    /\ pc[c] \in {"yielded", "yield_final"}
    /\ Finally(c, "cancelled")
    /\ UNCHANGED <<incoming, query_lock, lock_waiters, kind, prompt, interrupted,
                   clientState, followUp, turnInterrupts, sent, nextMsg, submits>>
    /\ UNCHANGED notSess

\* The consumer of query_stream() resumes the generator after its final item
\* (the last text, or the error text followed by `return`): the finally clause.
ResumeFinal(c) ==
    /\ pc[c] \in {"yield_final", "yield_err"}
    /\ Finally(c, IF pc[c] = "yield_final" THEN "ok" ELSE result[c])
    /\ UNCHANGED <<incoming, query_lock, lock_waiters, kind, prompt, interrupted,
                   clientState, followUp, turnInterrupts, sent, nextMsg, submits>>
    /\ UNCHANGED notSess

\* The client after _destroy_client(client): disconnect() was called; what it
\* raises is swallowed.
Destroyed(c) == "disconnected"

\* _destroy_client(client) returned; the lock is released (the end of
\* `async with` in query(), release() in query_stream()) and the call ends,
\* and with it its local flag and the count of interrupts of its last turn.
Destroy(c) ==
    /\ pc[c] = "destroy"
    /\ clientState' = Upd(clientState, c, Destroyed(c))
    /\ query_lock' = NoCaller
    /\ pc' = Upd(pc, c, "done")
    /\ interrupted' = Upd(interrupted, c, FALSE)
    /\ turnInterrupts' = Upd(turnInterrupts, c, 0)
    /\ UNCHANGED <<incoming, is_querying, client, lock_waiters, kind, prompt, result,
                   followUp, sent, nextMsg, submits>>
    /\ UNCHANGED notSess

\* ============================================================== scheduler

\* A row of scheduled_tasks; status "absent" stands for a row not yet inserted.
\* repeat_seconds = 0 stands for NULL and for 0: `if task.repeat_seconds:`
\* treats both as a one-time task.
Row(at, rep, st) == [scheduled_at |-> at, repeat_seconds |-> rep, status |-> st]

SchedInit ==
    /\ tasks = [t \in TaskIds |-> Row(0, 0, "absent")]
    /\ now = 0
    /\ sched_pc = "sleep"
    /\ due = <<>>
    /\ cur = NoTask
    /\ last = NoTask
    /\ firedAt = 0
    /\ execEnded = "none"
    /\ runs = [t \in TaskIds |-> 0]

\* datetime.now() moves on, at any point of any coroutine.
Tick ==
    /\ now < MaxTime
    /\ now' = now + 1
    /\ UNCHANGED <<tasks, sched_pc, due, cur, last, firedAt, execEnded, runs>>
    /\ UNCHANGED notSched

\* schedule_task tool -> SchedulerStorage.add: a pending row; a time that is
\* not in the future is moved one day on, so the row is never due at once.
ScheduleTask(t, at, rep) ==
    /\ tasks[t].status = "absent"
    /\ at > now
    /\ tasks' = Upd(tasks, t, Row(at, rep, "pending"))
    /\ UNCHANGED <<now, sched_pc, due, cur, last, firedAt, execEnded, runs>>
    /\ UNCHANGED notSched

\* cancel_scheduled_task tool -> SchedulerStorage.cancel: pending rows only.
CancelTask(t) ==
    /\ tasks[t].status = "pending"
    /\ tasks' = Upd(tasks, t, [tasks[t] EXCEPT !.status = "cancelled"])
    /\ execEnded' = IF t = last THEN "none" ELSE execEnded
    /\ UNCHANGED <<now, sched_pc, due, cur, last, firedAt, runs>>
    /\ UNCHANGED notSched

\* SchedulerStorage.get_due(): the pending rows with scheduled_at <= now.
IsDue(t) == tasks[t].status = "pending" /\ tasks[t].scheduled_at <= now

DueSet == {t \in TaskIds : IsDue(t)}

\* The orders in which a SELECT without ORDER BY may return a set of rows.
Orders(S) == {q \in [1..Cardinality(S) -> S] : \A i, j \in 1..Cardinality(S) :
                                                   i # j => q[i] # q[j]}

\* _loop wakes up from sleep(30) and _check reads the due tasks.
Poll ==
    /\ sched_pc = "sleep"
    /\ \E q \in Orders(DueSet) : due' = q
    /\ sched_pc' = "iterate"
    /\ UNCHANGED <<tasks, now, cur, last, firedAt, execEnded, runs>>
    /\ UNCHANGED notSched

\* `for task in tasks:` is exhausted: _check returns, _loop sleeps.
EndCheck ==
    /\ sched_pc = "iterate"
    /\ due = <<>>
    /\ sched_pc' = "sleep"
    /\ UNCHANGED <<tasks, now, due, cur, last, firedAt, execEnded, runs>>
    /\ UNCHANGED notSched

\* The row of a task when its body starts: set_status(task.id, "running").
RowAtStart(t) == [tasks[t] EXCEPT !.status = "running"]

\* One iteration of the loop up to the await of the task body:
\* set_status(task.id, "running"), then on_task_due(task.id, task.prompt).
BeginTask ==
    /\ sched_pc = "iterate"
    /\ due # <<>>
    /\ cur' = Head(due)
    /\ due' = Tail(due)
    /\ tasks' = Upd(tasks, Head(due), RowAtStart(Head(due)))
    /\ last' = Head(due)
    /\ firedAt' = now
    /\ execEnded' = "none"
    /\ runs' = Upd(runs, Head(due), runs[Head(due)] + 1)
    /\ sched_pc' = "exec"
    /\ UNCHANGED now
    /\ UNCHANGED notSched

\* on_task_due returned: a recurring task is rescheduled to now + repeat
\* (reschedule() also sets it pending), a one-time task is completed.
RowAfterSuccessStaysPending(t) ==
    IF tasks[t].repeat_seconds # 0
       THEN Row(now + tasks[t].repeat_seconds, tasks[t].repeat_seconds, "pending")
       ELSE [tasks[t] EXCEPT !.status = "pending"]

RowAfterSuccess(t) ==
    IF tasks[t].repeat_seconds # 0
       THEN Row(now + tasks[t].repeat_seconds, tasks[t].repeat_seconds, "pending")
       ELSE [tasks[t] EXCEPT !.status = "completed"]

ExecOk ==
    /\ sched_pc = "exec"
    /\ tasks' = Upd(tasks, cur, RowAfterSuccess(cur))
    /\ execEnded' = "ok"
    /\ cur' = NoTask
    /\ sched_pc' = "iterate"
    /\ UNCHANGED <<now, due, last, firedAt, runs>>
    /\ UNCHANGED notSched

\* on_task_due raised: `except Exception` sets the status "failed", for a
\* recurring task as for a one-time task.
RowAfterFailure(t) == [tasks[t] EXCEPT !.status = "failed"]

\* What the loop would do without the inner handler: the exception leaves
\* _check, the rest of the cycle is dropped and _loop sleeps.
ExecFailEscapes ==
    /\ sched_pc = "exec"
    /\ tasks' = Upd(tasks, cur, RowAfterFailure(cur))
    /\ execEnded' = "raised"
    /\ cur' = NoTask
    /\ due' = <<>>
    /\ sched_pc' = "sleep"
    /\ UNCHANGED <<now, last, firedAt, runs>>
    /\ UNCHANGED notSched

ExecFail ==
    /\ sched_pc = "exec"
    /\ tasks' = Upd(tasks, cur, RowAfterFailure(cur))
    /\ execEnded' = "raised"
    /\ cur' = NoTask
    /\ sched_pc' = "iterate"
    /\ UNCHANGED <<now, due, last, firedAt, runs>>
    /\ UNCHANGED notSched

\* ======================================================= trigger executor

\* Texts are sequences of characters.  " " stands for any whitespace, "M" and
\* "x" for any other characters.
Alphabet == {" ", "M", "x"}

SeqsUpTo(A, n) == UNION {[1..k -> A] : k \in 0..n}

\* str.strip(): leading and trailing whitespace removed.
RECURSIVE LStrip(_)
LStrip(s) == IF s # <<>> /\ Head(s) = " " THEN LStrip(Tail(s)) ELSE s

RECURSIVE RStrip(_)
RStrip(s) ==
    IF s # <<>> /\ s[Len(s)] = " " THEN RStrip(SubSeq(s, 1, Len(s) - 1)) ELSE s

Strip(s) == RStrip(LStrip(s))

\* s[:n]
Take(s, n) == SubSeq(s, 1, IF Len(s) < n THEN Len(s) ELSE n)

\* `m in s` for strings.
Contains(s, m) == \E i \in 0..(Len(s) - Len(m)) : SubSeq(s, i + 1, i + Len(m)) = m

\* s.replace(m, "") for a non-empty m: the occurrences of m are removed from
\* left to right, without overlap.
RECURSIVE Replace(_, _)
Replace(s, m) ==
    IF Len(s) < Len(m) THEN s
    ELSE IF SubSeq(s, 1, Len(m)) = m
            THEN Replace(SubSeq(s, Len(m) + 1, Len(s)), m)
            ELSE <<Head(s)>> \o Replace(Tail(s), m)

\* A TriggerEvent.  silent_marker = <<>> stands for None and for "": both are
\* falsy.  preview_message, result_prefix and context["task_id"] are either
\* absent or one fixed text.
Events ==
    [silent_marker : SeqsUpTo(Alphabet, MaxMarkerLen), notify_owner : BOOLEAN,
     preview_message : BOOLEAN, result_prefix : BOOLEAN, task_id : BOOLEAN]

NoEvent ==
    [silent_marker |-> <<>>, notify_owner |-> FALSE, preview_message |-> FALSE,
     result_prefix |-> FALSE, task_id |-> FALSE]

PreviewText == <<"v">>
ResultPrefix == <<"r">>

NoKey == 0

\* key = -(100 + self._ephemeral_counter)
EphemeralKey(counter) == 0 - (100 + counter)

ExecInit ==
    /\ ex_key = NoKey
    /\ ex_saved = FALSE
    /\ ephemeralFiles = {}
    /\ allocated = <<>>
    /\ restarts = 0
    /\ hb_pc = "idle"
    /\ hb_key = NoKey
    /\ ex_pc = "idle"
    /\ event = NoEvent
    /\ reply = <<>>
    /\ content = <<>>
    /\ ownerSent = <<>>
    /\ ownerIncoming = <<>>
    /\ transcripts = <<>>
    /\ returned = "pending"
    /\ ephemeral_counter = 0
    /\ ephemeralLive = FALSE

\* create_background_session(): a fresh UserSession under the next negative id.
CreateBackgroundSession ==
    /\ ephemeral_counter' = ephemeral_counter + 1
    /\ ephemeralLive' = TRUE
    /\ ex_key' = EphemeralKey(ephemeral_counter')
    /\ allocated' = Append(allocated, ex_key')

\* execute(event) up to its first await: the preview is sent if there is one
\* and the owner is to be notified, else the one-shot session is created and
\* queried.  What the call delivers, buffers and writes is observed per call.
Execute(ev) ==
    /\ ex_pc = "idle"
    /\ ephemeral_counter < MaxExecs
    /\ event' = ev
    /\ IF ev.preview_message /\ ev.notify_owner
          THEN /\ ex_pc' = "preview"
               /\ UNCHANGED <<ephemeral_counter, ephemeralLive, ex_key, allocated>>
          ELSE /\ ex_pc' = "query"
               /\ CreateBackgroundSession
    /\ UNCHANGED <<reply, content, ownerSent, ownerIncoming, transcripts, returned,
                   ex_saved, ephemeralFiles, restarts, hb_pc, hb_key>>
    /\ UNCHANGED notExec

\* The caller of execute() has received its result or its exception: the
\* observation of the call ends.
Returned ==
    /\ ex_pc = "done"
    /\ ex_pc' = "idle"
    /\ event' = NoEvent
    /\ reply' = <<>>
    /\ content' = <<>>
    /\ ownerSent' = <<>>
    /\ ownerIncoming' = <<>>
    /\ transcripts' = <<>>
    /\ returned' = "pending"
    /\ ex_key' = NoKey
    /\ ex_saved' = FALSE
    /\ UNCHANGED <<ephemeral_counter, ephemeralLive, ephemeralFiles, allocated, restarts,
                   hb_pc, hb_key>>
    /\ UNCHANGED notExec

\* send_to_owner(preview_message, buffer=False) returned: the preview was sent
\* and not buffered; the one-shot session is created and queried.
PreviewSent ==
    /\ ex_pc = "preview"
    /\ ownerSent' = Append(ownerSent, [kind |-> "preview", text |-> PreviewText])
    /\ ex_pc' = "query"
    /\ CreateBackgroundSession
    /\ UNCHANGED <<event, reply, content, ownerIncoming, transcripts, returned,
                   ex_saved, ephemeralFiles, restarts, hb_pc, hb_key>>
    /\ UNCHANGED notExec

\* The files left by destroy() of the session with key k: <k>.session is
\* unlinked.
DestroyedFilesKept(k) == ephemeralFiles

DestroyedFiles(k) == ephemeralFiles \ {k}

\* The query of the one-shot session receives a ResultMessage with a session
\* id: _save_session_id writes <key>.session.
QuerySaved ==
    /\ ex_pc = "query"
    /\ ~ex_saved
    /\ ex_saved' = TRUE
    /\ ephemeralFiles' = ephemeralFiles \cup {ex_key}
    /\ UNCHANGED <<ex_pc, event, reply, content, ownerSent, ownerIncoming, transcripts,
                   returned, ephemeral_counter, ephemeralLive, ex_key, allocated,
                   restarts, hb_pc, hb_key>>
    /\ UNCHANGED notExec

\* `event.silent_marker and event.silent_marker in content`
Silent(ev, c) == ev.silent_marker # <<>> /\ Contains(c, ev.silent_marker)

\* `if event.silent_marker: content = content.replace(marker, "").strip()`
Unmarked(ev, c) ==
    IF ev.silent_marker # <<>> THEN Strip(Replace(c, ev.silent_marker)) ELSE c

\* f"{event.result_prefix}\n{content}"
Prefixed(ev, c) == IF ev.result_prefix THEN ResultPrefix \o <<"\n">> \o c ELSE c

\* content[:MAX_MESSAGE_LENGTH] + "..." for a content longer than the limit.
Truncate(c) ==
    IF Len(c) > MaxMessageLength
       THEN Take(c, MaxMessageLength) \o <<".", ".", ".">>
       ELSE c

\* session.query returned r; the finally clause destroys the one-shot session
\* (destroy() of a session without client does not suspend); then the reply is
\* stripped, checked for the marker, cleaned, prefixed, truncated, written to
\* the transcript if the event has a task id, and either sent to the owner
\* (the await of send_to_owner) or returned.
QueryReturns(r) ==
    /\ ex_pc = "query"
    /\ reply' = r
    /\ ephemeralLive' = FALSE
    /\ ephemeralFiles' = DestroyedFiles(ex_key)
    /\ IF Silent(event, Strip(r)) \/ Unmarked(event, Strip(r)) = <<>>
          THEN /\ content' = IF Silent(event, Strip(r)) THEN Strip(r) ELSE <<>>
               /\ returned' = "None"
               /\ ex_pc' = "done"
               /\ UNCHANGED transcripts
          ELSE /\ content' = Truncate(Prefixed(event, Unmarked(event, Strip(r))))
               /\ transcripts' = IF event.task_id THEN Append(transcripts, content')
                                                  ELSE transcripts
               /\ ex_pc' = IF event.notify_owner THEN "send" ELSE "done"
               /\ returned' = IF event.notify_owner THEN returned ELSE "text"
    /\ UNCHANGED <<event, ownerSent, ownerIncoming, ephemeral_counter, ex_key, ex_saved,
                   allocated, restarts, hb_pc, hb_key>>
    /\ UNCHANGED notExec

\* session.query raised (a failed connect, or the cancellation of the task
\* that runs execute()): the finally clause destroys the one-shot session and
\* the exception leaves execute().
QueryRaises ==
    /\ ex_pc = "query"
    /\ ephemeralLive' = FALSE
    /\ ephemeralFiles' = DestroyedFiles(ex_key)
    /\ returned' = "raised"
    /\ ex_pc' = "done"
    /\ UNCHANGED <<event, reply, content, ownerSent, ownerIncoming, transcripts,
                   ephemeral_counter, ex_key, ex_saved, allocated, restarts, hb_pc,
                   hb_key>>
    /\ UNCHANGED notExec

\* receive_incoming(f"[Background task output]\n{text}") stores text[:2000].
Buffered(text) ==
    Take(<<"[Background task output]", "\n">> \o text, MaxBufferedLength)

\* send_to_owner(content) delivering the result twice.
DeliveredTwice ==
    /\ ex_pc = "send"
    /\ ownerSent' = ownerSent \o <<[kind |-> "result", text |-> content],
                                   [kind |-> "result", text |-> content]>>
    /\ ownerIncoming' = Append(ownerIncoming, Buffered(content))
    /\ returned' = "text"
    /\ ex_pc' = "done"
    /\ UNCHANGED <<event, reply, content, transcripts, ephemeral_counter, ephemeralLive,
                   ex_key, ex_saved, ephemeralFiles, allocated, restarts, hb_pc, hb_key>>
    /\ UNCHANGED notExec

\* send_to_owner(content) after transport.send_message returned: the result
\* was sent and is buffered into the owner's session; execute() returns content.
DeliverResult ==
    /\ ex_pc = "send"
    /\ ownerSent' = Append(ownerSent, [kind |-> "result", text |-> content])
    /\ ownerIncoming' = Append(ownerIncoming, Buffered(content))
    /\ returned' = "text"
    /\ ex_pc' = "done"
    /\ UNCHANGED <<event, reply, content, transcripts, ephemeral_counter, ephemeralLive,
                   ex_key, ex_saved, ephemeralFiles, allocated, restarts, hb_pc, hb_key>>

\* The delivery seen by the executor alone: the owner's buffer is the list of
\* the texts appended to it.
Delivered ==
    /\ DeliverResult
    /\ UNCHANGED notExec

\* The delivery seen together with the owner's session:
\* get_session(primary_owner_id).receive_incoming(...) appends to the buffer of
\* that session, whatever the session is doing; no lock is taken.
DeliveredToOwner ==
    /\ DeliverResult
    /\ nextMsg <= MaxMsgs
    /\ incoming' = Append(incoming, nextMsg)
    /\ nextMsg' = nextMsg + 1
    /\ bgMsgs' = bgMsgs \cup {nextMsg}
    /\ UNCHANGED <<is_querying, client, query_lock, lock_waiters, pc, kind, prompt,
                   interrupted, clientState, result, followUp, turnInterrupts, sent,
                   submits>>
    /\ UNCHANGED <<schedVars, trigVars, regVars, moreVars>>

\* transport.send_message raised, for the preview or for the result: nothing is
\* buffered and the exception leaves execute().
TransportFail ==
    /\ ex_pc \in {"preview", "send"}
    /\ returned' = "raised"
    /\ ex_pc' = "done"
    /\ UNCHANGED <<event, reply, content, ownerSent, ownerIncoming, transcripts,
                   ephemeral_counter, ephemeralLive, ex_key, ex_saved, ephemeralFiles,
                   allocated, restarts, hb_pc, hb_key>>
    /\ UNCHANGED notExec

\* ================================================= heartbeat and restarts

\* What the heartbeat actions leave alone.
hbFrame == <<ex_pc, event, reply, content, ownerSent, ownerIncoming, transcripts,
             returned, ephemeralLive, ex_key, ex_saved, restarts>>

\* _check() up to the await of session.query: create_heartbeat_session() takes
\* the next negative id.  (The reminders and task-session checks made before
\* it use no one-shot session.)
HeartbeatCheck ==
    /\ hb_pc = "idle"
    /\ ephemeral_counter < MaxExecs
    /\ ephemeral_counter' = ephemeral_counter + 1
    /\ hb_key' = EphemeralKey(ephemeral_counter')
    /\ allocated' = Append(allocated, hb_key')
    /\ hb_pc' = "query"
    /\ UNCHANGED ephemeralFiles
    /\ UNCHANGED hbFrame
    /\ UNCHANGED notExec

\* The heartbeat query receives a ResultMessage: <key>.session is written.
HeartbeatSaved ==
    /\ hb_pc = "query"
    /\ hb_key \notin ephemeralFiles
    /\ ephemeralFiles' = ephemeralFiles \cup {hb_key}
    /\ UNCHANGED <<hb_pc, hb_key, ephemeral_counter, allocated>>
    /\ UNCHANGED hbFrame
    /\ UNCHANGED notExec

\* session.query returned: the finally clause destroys the heartbeat session;
\* a reply with HEARTBEAT_OK or without text ends the check, any other reply
\* is sent to the owner.
HeartbeatReturns(silent) ==
    /\ hb_pc = "query"
    /\ ephemeralFiles' = DestroyedFiles(hb_key)
    /\ hb_pc' = IF silent THEN "idle" ELSE "send"
    /\ UNCHANGED <<hb_key, ephemeral_counter, allocated>>
    /\ UNCHANGED hbFrame
    /\ UNCHANGED notExec

\* session.query raised: the finally clause destroys the heartbeat session and
\* _loop logs the exception.
HeartbeatRaises ==
    /\ hb_pc = "query"
    /\ ephemeralFiles' = DestroyedFiles(hb_key)
    /\ hb_pc' = "idle"
    /\ UNCHANGED <<hb_key, ephemeral_counter, allocated>>
    /\ UNCHANGED hbFrame
    /\ UNCHANGED notExec

\* transport.send_message returned or raised: the check has ended.
HeartbeatSent ==
    /\ hb_pc = "send"
    /\ hb_pc' = "idle"
    /\ UNCHANGED <<hb_key, ephemeral_counter, allocated, ephemeralFiles>>
    /\ UNCHANGED hbFrame
    /\ UNCHANGED notExec

\* The process stops at any point, also in the middle of a query, and is
\* started again: SessionManager.__init__ sets _ephemeral_counter = 0, the
\* coroutines are gone, the session directory is as it was left.
ProcessRestart ==
    /\ restarts < MaxRestarts
    /\ restarts' = restarts + 1
    /\ ephemeral_counter' = 0
    /\ ephemeralLive' = FALSE
    /\ ex_pc' = "idle"
    /\ event' = NoEvent
    /\ reply' = <<>>
    /\ content' = <<>>
    /\ ownerSent' = <<>>
    /\ ownerIncoming' = <<>>
    /\ transcripts' = <<>>
    /\ returned' = "pending"
    /\ ex_key' = NoKey
    /\ ex_saved' = FALSE
    /\ hb_pc' = "idle"
    /\ hb_key' = NoKey
    /\ UNCHANGED <<ephemeralFiles, allocated>>
    /\ UNCHANGED notExec

\* ======================================================== trigger manager

Subscribers == 1..NumSubscribers
Configs == {"@news", "@jobs"}
SubIds == 1..MaxSubIds
NoSub == 0

\* The trigger types a caller may name, and self._type_registry: main
\* registers "tg_channel" only.
TriggerTypes == {"tg_channel", "email"}
TypeRegistry == {"tg_channel"}

\* A row of trigger_subscriptions.  Every row is active: set_active is never
\* called.  A config stands for a JSON object, which json.dumps / json.loads
\* reproduce unchanged.
SubRow(id, type, config) == [id |-> id, trigger_type |-> type, config |-> config]

NoArg == [trigger_type |-> "none", config |-> "none"]

StoredIds == {r.id : r \in storage}

\* TriggerStorage.list_active()
ListActive == storage

\* TriggerManager.__init__ over an empty database.
TrigInit ==
    /\ storage = {}
    /\ dynamic = {}
    /\ nextSub = 1
    /\ tm_pc = [c \in Subscribers |-> "idle"]
    /\ tm_arg = [c \in Subscribers |-> NoArg]
    /\ tm_sub = [c \in Subscribers |-> NoSub]
    /\ tm_res = [c \in Subscribers |-> "none"]
    /\ sa_pc = "off"
    /\ sa_list = <<>>
    /\ unsubDone = {}
    /\ rolledBack = {}
    /\ tm_calls = 0
    /\ builtins_started = {}

\* The builtins main registers, in registration order (the order in which
\* start_all() iterates self._builtins).
Builtins == <<"scheduler", "heartbeat">>

BuiltinNames == {Builtins[i] : i \in 1..Len(Builtins)}

\* start_all(), step 1: `await source.start()` of the next builtin. Nothing
\* catches an exception of it: start_all() raises and the builtins after it
\* and the persisted subscriptions are not started.
StartAllBuiltin(ok) ==
    /\ sa_pc = "off"
    /\ Cardinality(builtins_started) < Len(Builtins)
    /\ IF ok
          THEN /\ builtins_started' =
                     builtins_started \cup {Builtins[Cardinality(builtins_started) + 1]}
               /\ UNCHANGED sa_pc
          ELSE /\ sa_pc' = "raised"
               /\ UNCHANGED builtins_started
    /\ UNCHANGED <<storage, dynamic, nextSub, tm_pc, tm_arg, tm_sub, tm_res,
                   sa_list, unsubDone, rolledBack, tm_calls>>
    /\ UNCHANGED notTrig

\* start_all(), step 2: every builtin is started and list_active() is awaited.
StartAllBegin ==
    /\ sa_pc = "off"
    /\ builtins_started = BuiltinNames
    /\ sa_pc' = "list"
    /\ UNCHANGED <<storage, dynamic, nextSub, tm_pc, tm_arg, tm_sub, tm_res,
                   sa_list, unsubDone, rolledBack>>
    /\ UNCHANGED <<tm_calls, builtins_started>>
    /\ UNCHANGED notTrig

\* list_active() returned the persisted subscriptions, in some order.
StartAllListed ==
    /\ sa_pc = "list"
    /\ \E q \in Orders(ListActive) : sa_list' = q
    /\ sa_pc' = "loop"
    /\ UNCHANGED <<storage, dynamic, nextSub, tm_pc, tm_arg, tm_sub, tm_res,
                   unsubDone, rolledBack>>
    /\ UNCHANGED <<tm_calls, builtins_started>>
    /\ UNCHANGED notTrig

\* _start_subscription(sub) for the next persisted subscription: the source is
\* made and started and then registered; a failure is logged and skipped, the
\* row stays.
StartAllStart(ok) ==
    /\ sa_pc = "loop"
    /\ sa_list # <<>>
    /\ IF ok /\ Head(sa_list).trigger_type \in TypeRegistry
          THEN dynamic' = dynamic \cup {Head(sa_list).id}
          ELSE UNCHANGED dynamic
    /\ sa_list' = Tail(sa_list)
    /\ UNCHANGED <<storage, nextSub, tm_pc, tm_arg, tm_sub, tm_res, sa_pc, unsubDone, rolledBack>>
    /\ UNCHANGED <<tm_calls, builtins_started>>
    /\ UNCHANGED notTrig

\* start_all() returns; main then registers the message handlers, so the
\* tools are served from here on.
StartAllEnd ==
    /\ sa_pc = "loop"
    /\ sa_list = <<>>
    /\ sa_pc' = "started"
    /\ UNCHANGED <<storage, dynamic, nextSub, tm_pc, tm_arg, tm_sub, tm_res,
                   sa_list, unsubDone, rolledBack>>
    /\ UNCHANGED <<tm_calls, builtins_started>>
    /\ UNCHANGED notTrig

\* `trigger_type not in self._type_registry`
TypeKnownAlways(type) == TRUE

TypeKnown(type) == type \in TypeRegistry

\* `len(self._dynamic) >= MAX_DYNAMIC_SUBSCRIPTIONS`
LimitReached == Cardinality(dynamic) >= MaxSubscriptions

\* `s.trigger_type == trigger_type and s.config == config` for some listed s
IsDuplicate(arg, existing) ==
    \E r \in existing : r.trigger_type = arg.trigger_type /\ r.config = arg.config

\* The calls that will still ask the storage for a fresh id.
InFlightCreates == Cardinality({c \in Subscribers : tm_pc[c] \in {"list", "create"}})

\* subscribe(trigger_type, config, prompt) up to its first await: an unknown
\* type or an exhausted limit raises ValueError, else list_active() is awaited.
Subscribe(c, type, config) ==
    /\ sa_pc = "started"
    /\ tm_pc[c] \in {"idle", "done"}
    /\ tm_calls < MaxCalls
    /\ tm_calls' = tm_calls + 1
    /\ UNCHANGED builtins_started
    /\ nextSub + InFlightCreates <= MaxSubIds
    /\ tm_sub' = Upd(tm_sub, c, NoSub)
    /\ IF ~TypeKnown(type)
          THEN /\ tm_res' = Upd(tm_res, c, "unknown_type")
               /\ tm_pc' = Upd(tm_pc, c, "done")
               /\ tm_arg' = Upd(tm_arg, c, NoArg)
          ELSE IF LimitReached
          THEN /\ tm_res' = Upd(tm_res, c, "limit")
               /\ tm_pc' = Upd(tm_pc, c, "done")
               /\ tm_arg' = Upd(tm_arg, c, NoArg)
          ELSE /\ tm_res' = Upd(tm_res, c, "none")
               /\ tm_pc' = Upd(tm_pc, c, "list")
               /\ tm_arg' = Upd(tm_arg, c, [trigger_type |-> type, config |-> config])
    /\ UNCHANGED <<storage, dynamic, nextSub, sa_pc, sa_list, unsubDone, rolledBack>>
    /\ UNCHANGED notTrig

\* list_active() returned: a duplicate raises ValueError, else create() is
\* awaited.
SubscribeListed(c) ==
    /\ tm_pc[c] = "list"
    /\ IF IsDuplicate(tm_arg[c], ListActive)
          THEN /\ tm_res' = Upd(tm_res, c, "duplicate")
               /\ tm_pc' = Upd(tm_pc, c, "done")
               /\ tm_arg' = Upd(tm_arg, c, NoArg)
          ELSE /\ tm_pc' = Upd(tm_pc, c, "create")
               /\ UNCHANGED <<tm_res, tm_arg>>
    /\ UNCHANGED <<storage, dynamic, nextSub, tm_sub, sa_pc, sa_list,
                   unsubDone, rolledBack>>
    /\ UNCHANGED <<tm_calls, builtins_started>>
    /\ UNCHANGED notTrig

\* create() inserted the row under a fresh id and returned it; then
\* _start_subscription_strict: a missing factory or a factory that raises goes
\* to the except clause (delete() is awaited), else source.start() is awaited.
SubscribeCreated(c, factoryOk) ==
    /\ tm_pc[c] = "create"
    /\ storage' = storage \cup
                    {SubRow(nextSub, tm_arg[c].trigger_type, tm_arg[c].config)}
    /\ tm_sub' = Upd(tm_sub, c, nextSub)
    /\ nextSub' = nextSub + 1
    /\ tm_pc' = Upd(tm_pc, c, IF factoryOk /\ tm_arg[c].trigger_type \in TypeRegistry
                                  THEN "start" ELSE "rollback")
    /\ tm_arg' = Upd(tm_arg, c, NoArg)
    /\ UNCHANGED <<dynamic, tm_res, sa_pc, sa_list, unsubDone, rolledBack>>
    /\ UNCHANGED <<tm_calls, builtins_started>>
    /\ UNCHANGED notTrig

\* source.start() returned: self._dynamic[sub.id] = source; subscribe returns
\* the subscription.
StartOk(c) ==
    /\ tm_pc[c] = "start"
    /\ dynamic' = dynamic \cup {tm_sub[c]}
    /\ tm_res' = Upd(tm_res, c, "ok")
    /\ tm_pc' = Upd(tm_pc, c, "done")
    /\ tm_sub' = Upd(tm_sub, c, NoSub)
    /\ UNCHANGED <<storage, nextSub, tm_arg, sa_pc, sa_list, unsubDone, rolledBack>>
    /\ UNCHANGED <<tm_calls, builtins_started>>
    /\ UNCHANGED notTrig

\* source.start() raised: the except clause awaits delete(sub.id).
StartFail(c) ==
    /\ tm_pc[c] = "start"
    /\ tm_pc' = Upd(tm_pc, c, "rollback")
    /\ UNCHANGED <<storage, dynamic, nextSub, tm_arg, tm_sub, tm_res, sa_pc, sa_list,
                   unsubDone, rolledBack>>
    /\ UNCHANGED <<tm_calls, builtins_started>>
    /\ UNCHANGED notTrig

\* TriggerStorage.delete(id): the rows without the row of that id.
RowsAfterDeleteKept(id) == storage

RowsAfterDelete(id) == {r \in storage : r.id # id}

\* delete(sub.id) returned in the except clause: ValueError is raised.
RolledBack(c) ==
    /\ tm_pc[c] = "rollback"
    /\ storage' = RowsAfterDelete(tm_sub[c])
    /\ tm_res' = Upd(tm_res, c, "start_error")
    /\ tm_pc' = Upd(tm_pc, c, "done")
    /\ tm_sub' = Upd(tm_sub, c, NoSub)
    /\ rolledBack' = rolledBack \cup {tm_sub[c]}
    /\ UNCHANGED <<dynamic, nextSub, tm_arg, sa_pc, sa_list, unsubDone>>
    /\ UNCHANGED <<tm_calls, builtins_started>>
    /\ UNCHANGED notTrig

\* unsubscribe(subscription_id) up to its first await: the source is popped
\* from self._dynamic and its stop() awaited, or, without a registered source,
\* delete() is awaited.  Callers name ids the storage has handed out.
Unsubscribe(c, id) ==
    /\ sa_pc = "started"
    /\ tm_pc[c] \in {"idle", "done"}
    /\ tm_calls < MaxCalls
    /\ tm_calls' = tm_calls + 1
    /\ UNCHANGED builtins_started
    /\ id < nextSub
    /\ tm_sub' = Upd(tm_sub, c, id)
    /\ tm_arg' = Upd(tm_arg, c, NoArg)
    /\ tm_res' = Upd(tm_res, c, "none")
    /\ dynamic' = dynamic \ {id}
    /\ tm_pc' = Upd(tm_pc, c, IF id \in dynamic THEN "unsub_stop" ELSE "unsub_delete")
    /\ UNCHANGED <<storage, nextSub, sa_pc, sa_list, unsubDone, rolledBack>>
    /\ UNCHANGED notTrig

\* _safe_stop(source) returned (what stop() raises is logged); delete() is
\* awaited.
UnsubStopped(c) ==
    /\ tm_pc[c] = "unsub_stop"
    /\ tm_pc' = Upd(tm_pc, c, "unsub_delete")
    /\ UNCHANGED <<storage, dynamic, nextSub, tm_arg, tm_sub, tm_res, sa_pc, sa_list,
                   unsubDone, rolledBack>>
    /\ UNCHANGED <<tm_calls, builtins_started>>
    /\ UNCHANGED notTrig

\* delete(subscription_id) returned: unsubscribe returns whether a row was
\* deleted.
UnsubDeleted(c) ==
    /\ tm_pc[c] = "unsub_delete"
    /\ storage' = RowsAfterDelete(tm_sub[c])
    /\ tm_res' = Upd(tm_res, c, IF tm_sub[c] \in StoredIds THEN "true" ELSE "false")
    /\ tm_pc' = Upd(tm_pc, c, "done")
    /\ unsubDone' = unsubDone \cup {tm_sub[c]}
    /\ tm_sub' = Upd(tm_sub, c, NoSub)
    /\ UNCHANGED <<dynamic, nextSub, tm_arg, sa_pc, sa_list, rolledBack>>
    /\ UNCHANGED <<tm_calls, builtins_started>>
    /\ UNCHANGED notTrig

\* The process is restarted while no call is in progress, or after start_all()
\* raised and main ended: a new TriggerManager over the same database, with no
\* source registered or started and start_all() to run.
Restart ==
    /\ sa_pc \in {"started", "raised"}
    /\ \A c \in Subscribers : tm_pc[c] \in {"idle", "done"}
    /\ dynamic' = {}
    /\ builtins_started' = {}
    /\ tm_pc' = [c \in Subscribers |-> "idle"]
    /\ tm_arg' = [c \in Subscribers |-> NoArg]
    /\ tm_sub' = [c \in Subscribers |-> NoSub]
    /\ tm_res' = [c \in Subscribers |-> "none"]
    /\ sa_pc' = "off"
    /\ UNCHANGED <<storage, nextSub, sa_list, unsubDone, rolledBack>>
    /\ UNCHANGED tm_calls
    /\ UNCHANGED notTrig

\* ======================================================= session registry

\* The channels a caller may name; None and "telethon" give the same key.
Channels == {"none", "telethon", "bot"}

\* _make_key(telegram_id, channel) for the one user 123.
MakeKey(channel) == IF channel # "none" /\ channel # "telethon" THEN "bot:123" ELSE "123"

Keys == {MakeKey(ch) : ch \in Channels}

ObjIds == 1..MaxObjects
NoObj == 0
NoToken == 0

\* The UserSession objects created in this process run.
Objects == {o \in 1..(nextObj - 1) : s_key[o] # "none"}

\* SessionManager.__init__ over an empty session directory.
RegInit ==
    /\ sessions = [k \in Keys |-> NoObj]
    /\ s_key = [o \in ObjIds |-> "none"]
    /\ s_session_id = [o \in ObjIds |-> NoToken]
    /\ s_incoming = [o \in ObjIds |-> FALSE]
    /\ s_turn = [o \in ObjIds |-> "none"]
    /\ nextObj = 1
    /\ session_file = [k \in Keys |-> NoToken]
    /\ incoming_file = [k \in Keys |-> FALSE]
    /\ rs_pc = [k \in Keys |-> "idle"]
    /\ banned = FALSE
    /\ unbanning = FALSE
    /\ ret = [k \in Keys |-> NoObj]
    /\ returned_token = [k \in Keys |-> NoToken]

\* The object get_session returns for key k: the registered one, or a new one.
Got(k) == IF sessions[k] # NoObj THEN sessions[k] ELSE nextObj

\* get_session: `if key in self._sessions: return ...`, else UserSession(...)
\* (which loads _session_id and _incoming from the files of the key) is
\* registered.  The method does not await: it is atomic.
GetOrCreate(k) ==
    /\ sessions[k] = NoObj => nextObj <= MaxObjects
    /\ ret' = Upd(ret, k, Got(k))
    /\ UNCHANGED returned_token
    /\ IF sessions[k] # NoObj
          THEN UNCHANGED <<sessions, s_key, nextObj>>
          ELSE /\ sessions' = Upd(sessions, k, nextObj)
               /\ s_key' = Upd(s_key, nextObj, k)
               /\ nextObj' = nextObj + 1

\* get_session(telegram_id, channel=channel) by a caller that only looks the
\* session up.
GetSession(channel) ==
    /\ GetOrCreate(MakeKey(channel))
    /\ IF sessions[MakeKey(channel)] # NoObj
          THEN UNCHANGED <<s_session_id, s_incoming>>
          ELSE /\ s_session_id' = Upd(s_session_id, nextObj, session_file[MakeKey(channel)])
               /\ s_incoming' = Upd(s_incoming, nextObj, incoming_file[MakeKey(channel)])
    /\ UNCHANGED <<s_turn, session_file, incoming_file, rs_pc, banned, unbanning>>
    /\ UNCHANGED notReg

\* The message handler for a user who is not banned: get_session, then either
\* the message is buffered (the session is querying) or a turn is started:
\* the buffer is consumed, the lock taken and connect() awaited.
HandlerSubmit(channel) ==
    /\ ~banned
    /\ GetOrCreate(MakeKey(channel))
    /\ s_session_id' = IF sessions[MakeKey(channel)] # NoObj THEN s_session_id
                       ELSE Upd(s_session_id, nextObj, session_file[MakeKey(channel)])
    /\ IF s_turn[Got(MakeKey(channel))] # "none"
          THEN /\ s_incoming' = Upd(s_incoming, Got(MakeKey(channel)), TRUE)
               /\ incoming_file' = Upd(incoming_file, MakeKey(channel), TRUE)
               /\ UNCHANGED s_turn
          ELSE /\ s_incoming' = Upd(s_incoming, Got(MakeKey(channel)), FALSE)
               /\ incoming_file' = Upd(incoming_file, MakeKey(channel), FALSE)
               /\ s_turn' = Upd(s_turn, Got(MakeKey(channel)), "connecting")
    /\ UNCHANGED <<session_file, rs_pc, banned, unbanning>>
    /\ UNCHANGED notReg

\* _create_client() returned: self._client = client, the turn is open.
TurnConnected(o) ==
    /\ s_turn[o] = "connecting"
    /\ s_turn' = Upd(s_turn, o, "open")
    /\ UNCHANGED <<sessions, s_key, s_session_id, s_incoming, nextObj, session_file,
                   incoming_file, rs_pc, banned, unbanning, ret, returned_token>>
    /\ UNCHANGED notReg

\* The token of the conversation a turn of object o belongs to: the resumed
\* one (options.resume = self._session_id), or a new one.
TurnToken(o) == IF s_session_id[o] # NoToken THEN s_session_id[o] ELSE o

\* The ResultMessage arrives: _save_session_id(message.session_id) writes the
\* session file of the object's key.  Then `while self._incoming:` either
\* consumes the buffer of the object (clearing the buffer file of its key) and
\* sends it as a follow-up, the turn staying open, or ends the turn.
TurnResult(o) ==
    /\ s_turn[o] = "open"
    /\ s_session_id' = Upd(s_session_id, o, TurnToken(o))
    /\ session_file' = Upd(session_file, s_key[o], TurnToken(o))
    /\ returned_token' = Upd(returned_token, s_key[o], TurnToken(o))
    /\ IF s_incoming[o]
          THEN /\ s_incoming' = Upd(s_incoming, o, FALSE)
               /\ incoming_file' = Upd(incoming_file, s_key[o], FALSE)
               /\ UNCHANGED s_turn
          ELSE /\ s_turn' = Upd(s_turn, o, "none")
               /\ UNCHANGED <<s_incoming, incoming_file>>
    /\ UNCHANGED <<sessions, s_key, nextObj, rs_pc, banned, unbanning, ret>>
    /\ UNCHANGED notReg

\* _create_client() raises: it is called before the try block, so the turn is
\* abandoned with _is_querying left True; later messages are buffered.
RegConnectFail(o) ==
    /\ s_turn[o] = "connecting"
    /\ s_turn' = Upd(s_turn, o, "stuck")
    /\ UNCHANGED <<sessions, s_key, s_session_id, s_incoming, nextObj, session_file,
                   incoming_file, rs_pc, banned, unbanning, ret, returned_token>>
    /\ UNCHANGED notReg

\* The turn ends without a ResultMessage: an agent call failed or timed out,
\* or the client was disconnected under it; the finally block runs.
TurnFail(o) ==
    /\ s_turn[o] \in {"open", "broken"}
    /\ s_turn' = Upd(s_turn, o, "none")
    /\ UNCHANGED <<sessions, s_key, s_session_id, s_incoming, nextObj, session_file,
                   incoming_file, rs_pc, banned, unbanning, ret, returned_token>>
    /\ UNCHANGED notReg

\* destroy() after its client has been dealt with, and `del self._sessions[key]`:
\* the files of the key are deleted and the key is forgotten.
Forget(k) ==
    /\ session_file' = Upd(session_file, k, NoToken)
    /\ incoming_file' = Upd(incoming_file, k, FALSE)
    /\ sessions' = Upd(sessions, k, NoObj)
    /\ ret' = Upd(ret, k, NoObj)
    /\ returned_token' = Upd(returned_token, k, NoToken)

\* reset_session(key) up to its first await.  An unregistered key: nothing is
\* done.  A registered session with a client: destroy() awaits its
\* disconnect().  A registered session without a client (no turn, or a turn
\* still in connect()): destroy() does not suspend.
ResetBegin(k) ==
    /\ rs_pc[k] = "idle"
    /\ IF sessions[k] = NoObj
          THEN UNCHANGED <<sessions, s_turn, session_file, incoming_file, rs_pc, ret, returned_token>>
          ELSE IF s_turn[sessions[k]] = "open"
          THEN /\ s_turn' = Upd(s_turn, sessions[k], "broken")
               /\ rs_pc' = Upd(rs_pc, k, "disconnecting")
               /\ UNCHANGED <<sessions, session_file, incoming_file, ret, returned_token>>
          ELSE /\ Forget(k)
               /\ UNCHANGED <<s_turn, rs_pc>>

\* reset_session(telegram_id, channel), as /clear calls it.
ResetSession(channel) ==
    /\ ~unbanning
    /\ sessions[MakeKey(channel)] # NoObj
    /\ ResetBegin(MakeKey(channel))
    /\ UNCHANGED <<s_key, s_session_id, s_incoming, nextObj, banned, unbanning>>
    /\ UNCHANGED notReg

\* _destroy_client returned inside destroy(): the rest of destroy() and of
\* reset_session run.
ResetDisconnected(k) ==
    /\ rs_pc[k] = "disconnecting"
    /\ Forget(k)
    /\ rs_pc' = Upd(rs_pc, k, "idle")
    /\ unbanning' = IF k = MakeKey("none") THEN FALSE ELSE unbanning
    /\ UNCHANGED <<s_key, s_session_id, s_incoming, s_turn, nextObj, banned>>
    /\ UNCHANGED notReg

\* ban_user: the user is marked banned; sessions are not touched.
BanUser ==
    /\ ~banned
    /\ banned' = TRUE
    /\ UNCHANGED <<sessions, s_key, s_session_id, s_incoming, s_turn, nextObj,
                   session_file, incoming_file, rs_pc, unbanning, ret, returned_token>>
    /\ UNCHANGED notReg

\* unban_user for a banned user: the ban is lifted and
\* reset_session(user.telegram_id) is called, without a channel.
UnbanUser ==
    /\ banned
    /\ rs_pc[MakeKey("none")] = "idle"
    /\ banned' = FALSE
    /\ ResetBegin(MakeKey("none"))
    /\ unbanning' = (rs_pc'[MakeKey("none")] = "disconnecting")
    /\ UNCHANGED <<s_key, s_session_id, s_incoming, nextObj>>
    /\ UNCHANGED notReg

\* The process is restarted: every session object, every turn and every call in
\* progress is gone and a new SessionManager starts with an empty registry; the
\* files of the session directory and the ban list stay.
RegRestart ==
    /\ Objects # {}
    /\ sessions' = [k \in Keys |-> NoObj]
    /\ s_key' = [o \in ObjIds |-> "none"]
    /\ s_session_id' = [o \in ObjIds |-> NoToken]
    /\ s_incoming' = [o \in ObjIds |-> FALSE]
    /\ s_turn' = [o \in ObjIds |-> "none"]
    /\ rs_pc' = [k \in Keys |-> "idle"]
    /\ unbanning' = FALSE
    /\ ret' = [k \in Keys |-> NoObj]
    /\ UNCHANGED <<nextObj, session_file, incoming_file, banned, returned_token>>
    /\ UNCHANGED notReg

\* ================================================== the texts of a submit

\* The texts a TextBlock may carry; "" is the empty text.
Texts == {"", "a", "b"}

\* The fixed answer of query() when no TextBlock was received, the None of
\* query_stream's final yield, the inline error text, and "no answer yet".
NoResponse == "no answer"
NoneText == "None"
ErrorText == "error"
NoAnswer == "-"

TextInit ==
    /\ tx_pc = "idle"
    /\ tx_kind = "query"
    /\ text_parts = <<>>
    /\ tx_turns = 0
    /\ answer = NoAnswer

\* query(prompt) / query_stream(prompt) up to client.query(full_prompt):
\* text_parts starts empty.
TextSubmit(k) ==
    /\ tx_pc = "idle"
    /\ tx_pc' = "recv"
    /\ tx_kind' = k
    /\ text_parts' = <<>>
    /\ tx_turns' = 0
    /\ answer' = NoAnswer
    /\ UNCHANGED notText

\* An AssistantMessage with a TextBlock: text_parts.append(block.text).
TextBlockReceived(t) ==
    /\ tx_pc = "recv"
    /\ Len(text_parts) < MaxBlocks
    /\ text_parts' = Append(text_parts, t)
    /\ UNCHANGED <<tx_pc, tx_kind, tx_turns, answer>>
    /\ UNCHANGED notText

\* The response of a turn ends while the buffer holds messages: the follow-up
\* prompt is sent and the same text_parts goes on collecting.
TextFollowUp ==
    /\ tx_pc = "recv"
    /\ tx_turns < MaxFollowUps
    /\ tx_turns' = tx_turns + 1
    /\ UNCHANGED <<tx_pc, tx_kind, text_parts, answer>>
    /\ UNCHANGED notText

\* `return text_parts[-1] if text_parts else <the fixed no-answer text>`, and
\* for the stream
\* `yield (text_buffer[-1] if text_buffer else None, None, True)`.
FinalText(k, parts) ==
    IF parts # <<>> THEN parts[Len(parts)]
    ELSE IF k = "query" THEN NoResponse ELSE NoneText

\* The response of the last turn ends with an empty buffer: the submit returns.
TextReturn ==
    /\ tx_pc = "recv"
    /\ answer' = FinalText(tx_kind, text_parts)
    /\ tx_pc' = "done"
    /\ UNCHANGED <<tx_kind, text_parts, tx_turns>>
    /\ UNCHANGED notText

\* An agent call raises or the timeout fires: the inline error text is returned.
TextError ==
    /\ tx_pc = "recv"
    /\ answer' = ErrorText
    /\ tx_pc' = "done"
    /\ UNCHANGED <<tx_kind, text_parts, tx_turns>>
    /\ UNCHANGED notText

\* The caller has its answer; the next submit may come.
TextDone ==
    /\ tx_pc = "done"
    /\ tx_pc' = "idle"
    /\ UNCHANGED <<tx_kind, text_parts, tx_turns, answer>>
    /\ UNCHANGED notText

\* ================================================== TriggerManager.stop_all

SourceIds == 1..MaxSources

\* What stop() or close() is called on: a dynamic source by its subscription
\* id, a builtin by its position in the registration order, the storage.
DynamicSource(i) == <<"dynamic", i>>
BuiltinSource(i) == <<"builtin", i>>
StorageLabel == <<"storage", 0>>

RECURSIVE Reversed(_)
Reversed(q) == IF q = <<>> THEN <<>> ELSE Append(Reversed(Tail(q)), Head(q))

\* list(self._dynamic.items()) and reversed(list(self._builtins.keys())).
DynamicItems(d) == [i \in 1..Len(d) |-> DynamicSource(d[i])]
ReversedBuiltins == Reversed([i \in 1..Len(Builtins) |-> BuiltinSource(i)])

StopInit ==
    /\ sp_pc = "idle"
    /\ sp_dynamic = <<>>
    /\ sp_used = {}
    /\ sp_snapshot = <<>>
    /\ sp_todo = <<>>
    /\ stop_log = <<>>
    /\ sp_raised = {}

\* _start_subscription_strict after `await source.start()`:
\* self._dynamic[sub.id] = source.  The subscribe or start_all it belongs to may
\* still be running when stop_all runs.
RegisterSource(i) ==
    /\ i \notin sp_used
    /\ sp_used' = sp_used \cup {i}
    /\ sp_dynamic' = Append(sp_dynamic, i)
    /\ UNCHANGED <<sp_pc, sp_snapshot, sp_todo, stop_log, sp_raised>>
    /\ UNCHANGED notStop

\* The loop over the dynamic sources is over: self._dynamic.clear(), then the
\* loop over the reversed builtins starts.
DynamicStopped ==
    /\ sp_dynamic' = <<>>
    /\ sp_todo' = ReversedBuiltins
    /\ sp_pc' = "builtins"

\* stop_all() is called: the list of the dynamic sources is taken.
StopAllBegin ==
    /\ sp_pc = "idle"
    /\ sp_snapshot' = DynamicItems(sp_dynamic)
    /\ IF sp_dynamic = <<>>
          THEN DynamicStopped
          ELSE /\ sp_todo' = DynamicItems(sp_dynamic)
               /\ sp_pc' = "dynamic"
               /\ UNCHANGED sp_dynamic
    /\ UNCHANGED <<sp_used, stop_log, sp_raised>>
    /\ UNCHANGED notStop

\* _safe_stop without its try/except: the exception of stop() leaves stop_all.
SafeStopUnsafe(ok) ==
    /\ sp_pc \in {"dynamic", "builtins"}
    /\ sp_todo # <<>>
    /\ stop_log' = Append(stop_log, Head(sp_todo))
    /\ IF ok
          THEN /\ UNCHANGED sp_raised
               /\ IF Tail(sp_todo) # <<>>
                     THEN /\ sp_todo' = Tail(sp_todo)
                          /\ UNCHANGED <<sp_pc, sp_dynamic>>
                     ELSE IF sp_pc = "dynamic"
                             THEN DynamicStopped
                             ELSE /\ sp_todo' = <<>>
                                  /\ sp_pc' = "storage"
                                  /\ UNCHANGED sp_dynamic
          ELSE /\ sp_raised' = sp_raised \cup {Head(sp_todo)}
               /\ sp_pc' = "raised"
               /\ UNCHANGED <<sp_todo, sp_dynamic>>
    /\ UNCHANGED <<sp_used, sp_snapshot>>
    /\ UNCHANGED notStop

\* await self._safe_stop(source, label) of either loop: stop() is called on the
\* next source of the list; an exception of stop() is logged and the loop goes
\* on.  After the last dynamic source the dict is cleared, after the last
\* builtin the storage is next.
SafeStop(ok) ==
    /\ sp_pc \in {"dynamic", "builtins"}
    /\ sp_todo # <<>>
    /\ stop_log' = Append(stop_log, Head(sp_todo))
    /\ sp_raised' = IF ok THEN sp_raised ELSE sp_raised \cup {Head(sp_todo)}
    /\ IF Tail(sp_todo) # <<>>
          THEN /\ sp_todo' = Tail(sp_todo)
               /\ UNCHANGED <<sp_pc, sp_dynamic>>
          ELSE IF sp_pc = "dynamic"
                  THEN DynamicStopped
                  ELSE /\ sp_todo' = <<>>
                       /\ sp_pc' = "storage"
                       /\ UNCHANGED sp_dynamic
    /\ UNCHANGED <<sp_used, sp_snapshot>>
    /\ UNCHANGED notStop

\* await self._storage.close()
StorageClose ==
    /\ sp_pc = "storage"
    /\ stop_log' = Append(stop_log, StorageLabel)
    /\ sp_pc' = "stopped"
    /\ UNCHANGED <<sp_dynamic, sp_used, sp_snapshot, sp_todo, sp_raised>>
    /\ UNCHANGED notStop

\* =============================================== SessionManager.reset_all

SessionKeys == 1..MaxKeys

Registered == {ra_sessions[i] : i \in 1..Len(ra_sessions)}

AllInit ==
    /\ ra_pc = "idle"
    /\ ra_sessions = <<>>
    /\ ra_client = {}
    /\ ra_destroyed = {}
    /\ ra_removed = {}
    /\ ra_pos = 0
    /\ ra_size = 0

\* get_session for a key that is not registered: a session is created and
\* registered.  For a registered key the dict is not changed.  A session is
\* named by its key, so each key is created once.
CreateSession(k) ==
    /\ k \notin Registered
    /\ k \notin ra_removed
    /\ ra_sessions' = Append(ra_sessions, k)
    /\ UNCHANGED <<ra_pc, ra_client, ra_destroyed, ra_removed, ra_pos, ra_size>>
    /\ UNCHANGED notAll

\* A turn of a registered session has connected: self._client = client.
ClientSet(k) ==
    /\ k \in Registered
    /\ k \notin ra_client
    /\ k \notin ra_destroyed
    /\ ra_client' = ra_client \cup {k}
    /\ UNCHANGED <<ra_pc, ra_sessions, ra_destroyed, ra_removed, ra_pos, ra_size>>
    /\ UNCHANGED notAll

\* The for loop from position pos up to its next suspension: destroy() of a
\* session without a client does not suspend, destroy() of a session with a
\* client awaits _destroy_client; after the last session the dict is cleared.
\* The dict cannot change while the loop does not suspend.
RECURSIVE DestroyFrom(_, _)
DestroyFrom(pos, destroyed) ==
    IF pos > Len(ra_sessions)
       THEN [pc |-> "done", pos |-> pos, destroyed |-> destroyed]
       ELSE IF ra_sessions[pos] \in ra_client
               THEN [pc |-> "waiting", pos |-> pos, destroyed |-> destroyed]
               ELSE DestroyFrom(pos + 1, destroyed \cup {ra_sessions[pos]})

LoopFrom(pos, destroyed) ==
    /\ ra_pc' = DestroyFrom(pos, destroyed).pc
    /\ ra_pos' = DestroyFrom(pos, destroyed).pos
    /\ ra_destroyed' = DestroyFrom(pos, destroyed).destroyed
    /\ IF DestroyFrom(pos, destroyed).pc = "done"
          THEN /\ ra_sessions' = <<>>
               /\ ra_removed' = ra_removed \cup Registered
          ELSE UNCHANGED <<ra_sessions, ra_removed>>

\* reset_all() is called: the iterator over self._sessions.values() is created.
ResetAllBegin ==
    /\ ra_pc = "idle"
    /\ ra_size' = Len(ra_sessions)
    /\ LoopFrom(1, ra_destroyed)
    /\ UNCHANGED ra_client
    /\ UNCHANGED notAll

\* _destroy_client returned inside destroy(): _client = None, the files are
\* removed, and the for statement asks the iterator for the next session.  The
\* iterator of a dict whose size is not the size it was created with raises
\* RuntimeError; reset_all has no try.
ResetAllResumed ==
    /\ ra_pc = "waiting"
    /\ ra_client' = ra_client \ {ra_sessions[ra_pos]}
    /\ IF Len(ra_sessions) # ra_size
          THEN /\ ra_pc' = "raised"
               /\ ra_destroyed' = ra_destroyed \cup {ra_sessions[ra_pos]}
               /\ UNCHANGED <<ra_sessions, ra_removed, ra_pos>>
          ELSE LoopFrom(ra_pos + 1, ra_destroyed \cup {ra_sessions[ra_pos]})
    /\ UNCHANGED ra_size
    /\ UNCHANGED notAll

\* reset_all has returned or raised; its caller goes on.
ResetAllEnd ==
    /\ ra_pc \in {"done", "raised"}
    /\ ra_pc' = "idle"
    /\ UNCHANGED <<ra_sessions, ra_client, ra_destroyed, ra_removed, ra_pos, ra_size>>
    /\ UNCHANGED notAll

\* ======================================= TriggerExecutor._save_transcript

\* The characters of recent.jsonl: the newline, and one character per record:
\* json.dumps(transcript) is one line, since it escapes the newlines of the
\* texts, and it starts and ends with a brace.
Newline == 0
Records == 1..NumRecords

RecentInit ==
    /\ recent_file = <<>>
    /\ saved = <<>>

\* text.strip(), for texts whose only whitespace is the newline.
RECURSIVE StripNewlines(_)
StripNewlines(t) ==
    IF t = <<>> THEN t
    ELSE IF Head(t) = Newline THEN StripNewlines(Tail(t))
    ELSE IF t[Len(t)] = Newline THEN StripNewlines(SubSeq(t, 1, Len(t) - 1))
    ELSE t

\* text.split("\n"): the sequence of the lines of t, each a sequence of
\* characters; the split of the empty text is one empty line.
RECURSIVE SplitLines(_)
SplitLines(t) ==
    IF \A i \in 1..Len(t) : t[i] # Newline
       THEN <<t>>
       ELSE LET n == CHOOSE i \in 1..Len(t) :
                         t[i] = Newline /\ \A j \in 1..(i - 1) : t[j] # Newline
            IN  <<SubSeq(t, 1, n - 1)>> \o SplitLines(SubSeq(t, n + 1, Len(t)))

\* "\n".join(lines)
RECURSIVE JoinLines(_)
JoinLines(ls) ==
    IF ls = <<>> THEN <<>>
    ELSE IF Len(ls) = 1 THEN ls[1]
    ELSE ls[1] \o <<Newline>> \o JoinLines(Tail(ls))

\* lines[-max_lines:]
LastLines(ls, n) == SubSeq(ls, Len(ls) - n + 1, Len(ls))

\* lines[:max_lines], the first lines instead of the last.
TrimRecentLogFirst(text, max_lines) ==
    IF Len(SplitLines(StripNewlines(text))) > max_lines
       THEN JoinLines(SubSeq(SplitLines(StripNewlines(text)), 1, max_lines)) \o <<Newline>>
       ELSE text

\* _trim_recent_log(file, max_lines): the file is rewritten with its last
\* max_lines lines when it has more.
TrimRecentLog(text, max_lines) ==
    IF Len(SplitLines(StripNewlines(text))) > max_lines
       THEN JoinLines(LastLines(SplitLines(StripNewlines(text)), max_lines)) \o <<Newline>>
       ELSE text

\* _save_transcript: the record is appended to recent.jsonl as one line, then
\* the file is trimmed.  It has no await.
SaveTranscript(r) ==
    /\ Len(saved) < MaxSaves
    /\ recent_file' = TrimRecentLog(recent_file \o <<r, Newline>>, MaxRecent)
    /\ saved' = Append(saved, r)
    /\ UNCHANGED notRecent

\* ================== SchedulerRunner / HeartbeatRunner: start, stop, _loop

\* The two runners have the same start() and stop().
LoopSources == BuiltinNames
NoLoop == 0
LoopTasks == 1..MaxLoopCalls

LoopInit ==
    /\ lp_running = [s \in LoopSources |-> FALSE]
    /\ lp_task = [s \in LoopSources |-> NoLoop]
    /\ lp_alive = [s \in LoopSources |-> {}]
    /\ lp_cancel = [s \in LoopSources |-> {}]
    /\ lp_pc = [s \in LoopSources |-> "idle"]
    /\ lp_calls = [s \in LoopSources |-> 0]

\* start() without `if self._running: return`.
LoopStartUnguarded(s) ==
    /\ lp_pc[s] \in {"idle", "stopped"}
    /\ lp_calls[s] < MaxLoopCalls
    /\ lp_calls' = Upd(lp_calls, s, lp_calls[s] + 1)
    /\ lp_pc' = Upd(lp_pc, s, "idle")
    /\ lp_running' = Upd(lp_running, s, TRUE)
    /\ lp_task' = Upd(lp_task, s, lp_calls[s] + 1)
    /\ lp_alive' = Upd(lp_alive, s, lp_alive[s] \cup {lp_calls[s] + 1})
    /\ UNCHANGED lp_cancel
    /\ UNCHANGED notLoop

\* start(): nothing for a running source; otherwise _running = True and a task
\* running _loop() is created and kept in _task.  The calls on one source are
\* made one after the other (TriggerManager.start_all / stop_all).
LoopStart(s) ==
    /\ lp_pc[s] \in {"idle", "stopped"}
    /\ lp_calls[s] < MaxLoopCalls
    /\ lp_calls' = Upd(lp_calls, s, lp_calls[s] + 1)
    /\ lp_pc' = Upd(lp_pc, s, "idle")
    /\ IF lp_running[s]
          THEN UNCHANGED <<lp_running, lp_task, lp_alive>>
          ELSE /\ lp_running' = Upd(lp_running, s, TRUE)
               /\ lp_task' = Upd(lp_task, s, lp_calls[s] + 1)
               /\ lp_alive' = Upd(lp_alive, s, lp_alive[s] \cup {lp_calls[s] + 1})
    /\ UNCHANGED lp_cancel
    /\ UNCHANGED notLoop

\* stop() up to its await: _running = False; without a task it returns, with
\* one the task is cancelled (nothing happens to a task that has ended) and
\* awaited.
LoopStop(s) ==
    /\ lp_pc[s] \in {"idle", "stopped"}
    /\ lp_calls[s] < MaxLoopCalls
    /\ lp_calls' = Upd(lp_calls, s, lp_calls[s] + 1)
    /\ lp_running' = Upd(lp_running, s, FALSE)
    /\ IF lp_task[s] = NoLoop
          THEN /\ lp_pc' = Upd(lp_pc, s, "stopped")
               /\ UNCHANGED lp_cancel
          ELSE /\ lp_pc' = Upd(lp_pc, s, "stopping")
               /\ lp_cancel' = Upd(lp_cancel, s,
                                   lp_cancel[s] \cup (lp_alive[s] \cap {lp_task[s]}))
    /\ UNCHANGED <<lp_task, lp_alive>>
    /\ UNCHANGED notLoop

\* The cancellation reaches the task at the await it is suspended in:
\* CancelledError is not an Exception, so `except Exception` of _loop does not
\* catch it and the task ends.
LoopCancelled(s, t) ==
    /\ t \in lp_cancel[s]
    /\ lp_cancel' = Upd(lp_cancel, s, lp_cancel[s] \ {t})
    /\ lp_alive' = Upd(lp_alive, s, lp_alive[s] \ {t})
    /\ UNCHANGED <<lp_running, lp_task, lp_pc, lp_calls>>
    /\ UNCHANGED notLoop

\* `await self._task` returns, by the CancelledError that is caught, once the
\* task has ended: stop() returns.
LoopStopReturns(s) ==
    /\ lp_pc[s] = "stopping"
    /\ lp_task[s] \notin lp_alive[s]
    /\ lp_pc' = Upd(lp_pc, s, "stopped")
    /\ UNCHANGED <<lp_running, lp_task, lp_alive, lp_cancel, lp_calls>>
    /\ UNCHANGED notLoop

\* ========================================================= specifications

Init ==
    /\ SessInit /\ SchedInit /\ ExecInit /\ TrigInit /\ RegInit /\ bgMsgs = {}
    /\ TextInit
    /\ StopInit
    /\ AllInit
    /\ RecentInit
    /\ LoopInit

Next ==
    \/ ReceiveIncoming
    \/ \E c \in Callers : \E k \in {"query", "stream"} : Submit(c, k)
    \/ \E c \in Callers : LockAcquired(c)
    \/ \E c \in Callers : ConnectOk(c)
    \/ \E c \in Callers : ConnectFail(c)
    \/ \E c \in Callers : SendPrompt(c)
    \/ \E c \in Callers : \E y \in BOOLEAN : RecvAssistant(c, y)
    \/ \E c \in Callers : ResumeAfterYield(c)
    \/ \E c \in Callers : RecvResult(c)
    \/ \E c \in Callers : InterruptOk(c)
    \/ \E c \in Callers : AgentFail(c)
    \/ \E c \in Callers : Timeout(c)
    \/ \E c \in Callers : TimeoutAtYield(c)
    \/ \E c \in Callers : ResumeFinal(c)
    \/ \E c \in Callers : Destroy(c)

\* The conversation session under concurrent callers.
Spec == Init /\ [][Next]_vars

SchedNext ==
    \/ Tick
    \/ \E t \in TaskIds : \E at \in 1..MaxTime : \E rep \in 0..MaxRepeat :
          ScheduleTask(t, at, rep)
    \/ \E t \in TaskIds : CancelTask(t)
    \/ Poll
    \/ EndCheck
    \/ BeginTask
    \/ ExecOk
    \/ ExecFail

\* The scheduler loop with its tools.
SchedSpec == Init /\ [][SchedNext]_vars

\* The token file of the one-shot session is followed in EphSpec.
ExecNext ==
    \/ \E ev \in Events : Execute(ev)
    \/ PreviewSent
    \/ \E r \in SeqsUpTo(Alphabet, MaxReplyLen) : QueryReturns(r)
    \/ QueryRaises
    \/ Delivered
    \/ TransportFail
    \/ Returned

\* The trigger executor.
ExecSpec == Init /\ [][ExecNext]_vars

TrigNext ==
    \/ \E ok \in BOOLEAN : StartAllBuiltin(ok)
    \/ StartAllBegin
    \/ StartAllListed
    \/ \E ok \in BOOLEAN : StartAllStart(ok)
    \/ StartAllEnd
    \/ \E c \in Subscribers : \E type \in TriggerTypes : \E config \in Configs :
          Subscribe(c, type, config)
    \/ \E c \in Subscribers : SubscribeListed(c)
    \/ \E c \in Subscribers : \E factoryOk \in BOOLEAN : SubscribeCreated(c, factoryOk)
    \/ \E c \in Subscribers : StartOk(c)
    \/ \E c \in Subscribers : StartFail(c)
    \/ \E c \in Subscribers : RolledBack(c)
    \/ \E c \in Subscribers : \E id \in SubIds : Unsubscribe(c, id)
    \/ \E c \in Subscribers : UnsubStopped(c)
    \/ \E c \in Subscribers : UnsubDeleted(c)
    \/ Restart

\* The trigger manager with its tools.
TrigSpec == Init /\ [][TrigNext]_vars

RegNext ==
    \/ \E ch \in Channels : GetSession(ch)
    \/ \E ch \in Channels : HandlerSubmit(ch)
    \/ \E o \in ObjIds : TurnConnected(o)
    \/ \E o \in ObjIds : TurnResult(o)
    \/ \E o \in ObjIds : RegConnectFail(o)
    \/ \E o \in ObjIds : TurnFail(o)
    \/ \E ch \in Channels : ResetSession(ch)
    \/ \E k \in Keys : ResetDisconnected(k)
    \/ BanUser
    \/ UnbanUser
    \/ RegRestart

\* An event whose result is delivered to the owner, and its reply.
OwnerEvents == {ev \in Events : /\ ev.silent_marker = <<>> /\ ev.notify_owner
                                 /\ ~ev.preview_message /\ ~ev.result_prefix
                                 /\ ~ev.task_id}
OwnerReplies == {<<"x">>}

OwnerNext ==
    \/ Next
    \/ \E ev \in OwnerEvents : Execute(ev)
    \/ \E r \in OwnerReplies : QueryReturns(r)
    \/ QueryRaises
    \/ DeliveredToOwner
    \/ TransportFail
    \/ Returned

\* The owner's conversation session while the executor runs trigger events in
\* the background.
OwnerSpec == Init /\ [][OwnerNext]_vars

\* The events and replies of the one-shot sessions' life cycle: the texts play
\* no part in it.
PlainEvents == {ev \in Events : ev.silent_marker = <<>> /\ ~ev.result_prefix /\ ~ev.task_id}
PlainReplies == SeqsUpTo({"x"}, 1)

EphNext ==
    \/ \E ev \in PlainEvents : Execute(ev)
    \/ PreviewSent
    \/ QuerySaved
    \/ \E r \in PlainReplies : QueryReturns(r)
    \/ QueryRaises
    \/ Delivered
    \/ TransportFail
    \/ Returned
    \/ HeartbeatCheck
    \/ HeartbeatSaved
    \/ \E silent \in BOOLEAN : HeartbeatReturns(silent)
    \/ HeartbeatRaises
    \/ HeartbeatSent
    \/ ProcessRestart

\* The one-shot sessions of the executor and of the heartbeat, over restarts
\* of the process.
EphSpec == Init /\ [][EphNext]_vars

\* The session registry with the handlers and tools that use it.
RegSpec == Init /\ [][RegNext]_vars

\* ================================================================= claims

\* The positions at which a call holds the session: from the lock being taken
\* to the lock being released.
HoldsSession(c) ==
    pc[c] \in {"connect", "send", "recv", "yielded", "interrupt", "interrupt_end",
               "yield_final", "yield_err", "destroy"}

Connected == {c \in Callers : clientState[c] = "connected"}

\* C1: the turn-open windows of concurrent submits on one session never
\* overlap: at most one call has a client connected; a call that has gone past
\* the lock holds it, and every other call in progress waits for the lock.
C1_MutualExclusion ==
    /\ Cardinality(Connected) <= 1
    /\ \A c \in Callers : HoldsSession(c) => query_lock = c
    /\ \A c, d \in Callers :
          (c # d /\ HoldsSession(c)) => pc[d] \in {"idle", "done", "wait_lock"}

\* A turn is open in one call while another submit waits for the mutex.
C1_Witness ==
    \E c, d \in Callers : c # d /\ pc[c] = "recv" /\ pc[d] = "wait_lock"

\* Number of occurrences of m in the sequence q.
Count(q, m) == Cardinality({i \in 1..Len(q) : q[i] = m})

RECURSIVE InPrompts(_, _)
InPrompts(S, m) ==
    IF S = {} THEN 0
    ELSE LET c == CHOOSE x \in S : TRUE
         IN  Count(prompt[c], m) + InPrompts(S \ {c}, m)

Received == 1..(nextMsg - 1)

\* C2: no lost input, no duplicated input: every received message is in the
\* buffer, in a prompt about to be sent, or was sent to the agent, and in
\* exactly one of these places exactly once.
C2_NoLostNoDuplicatedInput ==
    \A m \in Received :
        Count(incoming, m) + InPrompts(Callers, m) + Count(sent, m) = 1

\* C3: buffered messages reach the agent in receipt order, under every
\* interleaving of receive_incoming with the pending submits.
C3_ReceiptOrder ==
    \A i, j \in 1..Len(sent) : i < j => sent[i] < sent[j]

\* C4: when a submit finishes without error, the buffer is empty at the moment
\* the session stops being busy.
C4_DrainedWhenIdle ==
    [][(is_querying /\ ~is_querying' /\ query_lock \in Callers
          /\ result'[query_lock] = "ok") => incoming' = <<>>]_vars

\* C5: at most one interrupt signal is sent per turn, in the initial turn and
\* in each follow-up turn, however many messages are buffered during it.
C5_OneInterruptPerTurn ==
    \A c \in Callers : turnInterrupts[c] <= 1

\* A follow-up turn in which the interrupt was sent and the stream goes on
\* while a further message is buffered.
C5_Witness ==
    \E c \in Callers :
        /\ followUp[c] /\ turnInterrupts[c] = 1 /\ interrupted[c]
        /\ pc[c] = "recv" /\ incoming # <<>>

\* C6: no failure of an agent-client call of a submit (connect, send, receive,
\* interrupt) is raised to the caller.
C6_NeverRaised ==
    \A c \in Callers : result[c] # "raised"

\* C7: once a submit has terminated in any way, the session is not busy, holds
\* no client reference and its mutex is free for the next submit.
C7_ValidAfterSubmit ==
    \A c \in Callers :
        pc[c] = "done" =>
            /\ query_lock # c
            /\ client # c
            /\ (\A d \in Callers : ~HoldsSession(d)) => ~is_querying

\* The calls in which the timeout has expired.
TimedOut(c) == result[c] \in {"timeout", "cancelled"}

\* C8: when the timeout expires in an open turn, the submit returns the timeout
\* error text without any further agent call, and once it has ended its client
\* is disconnected and the mutex released.
C8_TimeoutCleanup ==
    \A c \in Callers :
        TimedOut(c) =>
            /\ result[c] = "timeout"
            /\ pc[c] \in {"yield_err", "destroy", "done"}
            /\ pc[c] = "done" =>
                  /\ clientState[c] = "disconnected"
                  /\ query_lock # c
                  /\ client # c

\* C9: while the body of a due recurring task executes, its schedule time has
\* already been advanced to the firing time plus the repeat interval.
C9_AdvancedBeforeExecution ==
    (sched_pc = "exec" /\ tasks[cur].repeat_seconds # 0) =>
        tasks[cur].scheduled_at = firedAt + tasks[cur].repeat_seconds

\* C10: after the execution of a recurring task fired at time T with repeat
\* interval R has finished, normally or by raising, its schedule time is T + R
\* and it is pending again.
C10_IdempotentRescheduling ==
    (execEnded # "none" /\ tasks[last].repeat_seconds # 0) =>
        /\ tasks[last].scheduled_at = firedAt + tasks[last].repeat_seconds
        /\ tasks[last].status = "pending"

\* The task is in the list the current _check still has to iterate.
InDue(t) == \E i \in 1..Len(due) : due[i] = t

\* C11: a one-time task is executed at most once, however many polls follow;
\* once its execution has succeeded its status is "completed", which is
\* terminal: no later poll selects it, no execution of it is started and its
\* row does not change again.
C11_OneTimeExactlyOnce ==
    /\ [](\A t \in TaskIds :
            tasks[t].repeat_seconds = 0 =>
                /\ runs[t] <= 1
                /\ tasks[t].status = "completed" =>
                      (runs[t] = 1 /\ ~InDue(t) /\ cur # t))
    /\ [][\A t \in TaskIds :
            (tasks[t].repeat_seconds = 0 /\ tasks[t].status = "completed") =>
                (tasks'[t] = tasks[t] /\ runs'[t] = runs[t])]_vars

\* A one-time task was executed and completed, and a later poll has selected
\* another task, one that was not yet due when the first was started.
C11_Witness ==
    \E t \in TaskIds :
        /\ tasks[t].repeat_seconds = 0 /\ tasks[t].status = "completed"
        /\ runs[t] = 1 /\ last = t /\ execEnded = "ok"
        /\ sched_pc = "iterate" /\ due # <<>>
        /\ tasks[Head(due)].scheduled_at > firedAt

\* The results (not the previews) the executor sent to the owner.
ResultsSent == {i \in 1..Len(ownerSent) : ownerSent[i].kind = "result"}

\* execute() has ended without delivering, buffering, recording or returning
\* anything.
Suppressed ==
    /\ ex_pc = "done" /\ returned = "None"
    /\ ResultsSent = {} /\ ownerIncoming = <<>> /\ transcripts = <<>>

C13_RollbackOnSubscribeFailure ==
    /\ \A id \in rolledBack : id \notin StoredIds /\ id \notin dynamic
    /\ \A c \in Subscribers : tm_pc[c] = "rollback" => tm_sub[c] \notin dynamic

\* A subscribe call whose source could not be started has ended, while another
\* subscription is stored and running.
C13_Witness ==
    \E c \in Subscribers :
        /\ tm_res[c] = "start_error" /\ rolledBack # {}
        /\ storage # {} /\ dynamic # {}

\* The errors with which subscribe rejects a call before it persists anything.
Rejections == {"unknown_type", "limit", "duplicate"}

\* C14: a subscribe call for an unknown type never gets past the checks and
\* never persists a row, and the step in which a call is rejected (unknown
\* type, exhausted limit, duplicate) changes neither the subscription store
\* nor the registered sources.
C14_RejectedSubscribeChangesNothing ==
    /\ [](/\ \A c \in Subscribers :
                tm_pc[c] \in {"list", "create"} =>
                    tm_arg[c].trigger_type \in TypeRegistry
          /\ \A r \in storage : r.trigger_type \in TypeRegistry)
    /\ [][\A c \in Subscribers :
            (tm_res'[c] \in Rejections /\ (tm_res[c] # tm_res'[c] \/ tm_pc[c] # "done"))
                => (storage' = storage /\ dynamic' = dynamic)]_vars

\* One call was rejected as a duplicate and another for the exhausted limit.
C14_Witness ==
    \E c, d \in Subscribers :
        /\ tm_res[c] = "duplicate" /\ tm_res[d] = "limit"
        /\ storage # {} /\ dynamic # {}

\* C15: the number of persisted active subscriptions never exceeds the
\* maximum subscription count.
C15_SubscriptionCap ==
    Cardinality(storage) <= MaxSubscriptions

\* C16: no two active subscriptions have the same trigger type and an equal
\* config.
C16_NoDuplicateSubscriptions ==
    \A r1, r2 \in storage :
        (r1.trigger_type = r2.trigger_type /\ r1.config = r2.config) => r1 = r2

\* C17: when unsubscribe(id) deletes the row, no source is registered as
\* running for id; and once an unsubscribe(id) has completed, a further
\* unsubscribe(id) removes no registered source, deletes no row and returns
\* false.
C17_UnsubscribeIdempotent ==
    [][\A c \in Subscribers :
        /\ (tm_pc[c] = "unsub_delete" /\ tm_pc'[c] = "done")
              => tm_sub[c] \notin dynamic
        /\ (tm_pc[c] \in {"idle", "done"} /\ tm_pc'[c] \in {"unsub_stop", "unsub_delete"}
              /\ tm_sub'[c] \in unsubDone)
              => dynamic' = dynamic
        /\ (tm_pc[c] = "unsub_delete" /\ tm_pc'[c] = "done" /\ tm_sub[c] \in unsubDone)
              => (tm_res'[c] = "false" /\ storage' = storage)]_vars

\* A step in which the process is restarted: only a restart loses session
\* objects that had a key.
RestartStep == \E o \in ObjIds : s_key[o] # "none" /\ s_key'[o] = "none"

\* The object holds its lock for a turn.
TurnOpen(o) == s_turn[o] \in {"connecting", "open", "broken"}

\* A session object is live while it is registered or has a turn in progress.
Live(o) == sessions[s_key[o]] = o \/ TurnOpen(o)

\* C18: get_session returns the registered object of the key for as long as
\* it is registered, and no two session objects of one key are live at the
\* same time.
C18_OneLiveSessionPerKey ==
    /\ \A k \in Keys : ret[k] # NoObj => ret[k] = sessions[k]
    /\ \A o1, o2 \in Objects :
          (o1 # o2 /\ s_key[o1] = s_key[o2]) => ~(Live(o1) /\ Live(o2))

\* C19: the step that completes reset_session(key) leaves neither the token
\* file nor the buffer file of the key, and a session created for a key that
\* was reset starts without a continuation token and with an empty buffer.
C19_ResetForgets ==
    [][\A k \in Keys :
        /\ (sessions[k] # NoObj /\ sessions'[k] = NoObj /\ ~RestartStep)
              => (session_file'[k] = NoToken /\ ~incoming_file'[k])
        /\ (sessions[k] = NoObj /\ sessions'[k] # NoObj
              /\ \E o \in Objects : s_key[o] = k)
              => (s_session_id'[sessions'[k]] = NoToken
                  /\ ~s_incoming'[sessions'[k]])]_vars

\* C20: when unban_user completes, no key of the user has a token file and no
\* registered session of the user holds a continuation token.
C20_UnbanInvalidatesContext ==
    [][(((banned /\ ~banned' /\ ~unbanning') \/ (unbanning /\ ~unbanning'))
           /\ ~RestartStep)
          => \A k \in Keys :
                /\ session_file'[k] = NoToken
                /\ sessions'[k] # NoObj => s_session_id'[sessions'[k]] = NoToken]_vars

\* C21: once execute() has got past its query (it sends, has returned or has
\* raised), and once a heartbeat check has got past its query, the token file
\* of the one-shot session it used does not exist.
C21_EphemeralDestroyed ==
    /\ (ex_pc \in {"send", "done"} /\ ex_key # NoKey) => ex_key \notin ephemeralFiles
    /\ (hb_pc \in {"send", "idle"} /\ hb_key # NoKey) => hb_key \notin ephemeralFiles

\* An execution whose query had saved a session id has raised, and a heartbeat
\* check has ended.
C21_Witness ==
    /\ ex_pc = "done" /\ ex_saved /\ returned = "raised"
    /\ hb_pc = "idle" /\ hb_key # NoKey

\* C22: the keys handed out for one-shot sessions are negative, pairwise
\* different, are not keys of the registry, and handing one out registers
\* nothing.
C22_EphemeralKeysFresh ==
    /\ [](/\ \A i \in 1..Len(allocated) : allocated[i] < 0
          /\ \A i \in 1..Len(allocated) : ToString(allocated[i]) \notin Keys
          /\ \A i, j \in 1..Len(allocated) : i # j => allocated[i] # allocated[j])
    /\ [][allocated' # allocated => sessions' = sessions]_vars

\* The event is to notify the owner and the reply of the agent neither
\* contains the silence marker of the event nor is empty.
ToBeDelivered ==
    /\ event.notify_owner
    /\ ~(event.silent_marker # <<>> /\ Contains(reply, event.silent_marker))
    /\ Strip(reply) # <<>>

\* C23: execute() never sends more than one result for an event; when it has
\* ended for an event that is to be delivered, it has either returned after
\* sending exactly one result, which is the content it returns, or the one
\* send_message call has raised and nothing was sent.
C23_ResultSentOnce ==
    /\ Cardinality(ResultsSent) <= 1
    /\ (ex_pc = "done" /\ ToBeDelivered)
          => \/ /\ returned = "text"
                /\ Cardinality(ResultsSent) = 1
                /\ \A i \in ResultsSent : ownerSent[i].text = content
             \/ /\ returned = "raised"
                /\ ResultsSent = {}

\* An event with a preview and a silence marker has been executed and its
\* result delivered.
C23_Witness ==
    /\ ex_pc = "done" /\ ToBeDelivered /\ returned = "text"
    /\ event.preview_message /\ event.silent_marker # <<>>
    /\ Len(ownerSent) = 2

\* C24: the owner's buffer holds one entry per delivered result and nothing
\* else (no preview, no silent result), and each delivered result text is
\* contained in exactly one entry of the buffer.
C24_DeliveredResultBuffered ==
    /\ Len(ownerIncoming) = Cardinality(ResultsSent)
    /\ \A i \in ResultsSent :
          Cardinality({j \in 1..Len(ownerIncoming) :
                          Contains(ownerIncoming[j], ownerSent[i].text)}) = 1

\* Call c decides to send an interrupt signal on its open turn.
DecidesInterrupt(c) ==
    /\ pc[c] \notin {"interrupt", "interrupt_end"}
    /\ pc'[c] \in {"interrupt", "interrupt_end"}

\* C25: the delivery of a background result neither takes nor queues for the
\* lock of the owner's session, and no turn of the owner's session is
\* interrupted when the buffer holds nothing but background results.
C25_BackgroundDoesNotInterrupt ==
    [][/\ bgMsgs' # bgMsgs => (query_lock' = query_lock /\ lock_waiters' = lock_waiters)
       /\ \A c \in Callers :
             DecidesInterrupt(c) => \E i \in 1..Len(incoming) : incoming[i] \notin bgMsgs]_vars

\* C26: while the scheduler awaits the execution of one due task, no other
\* task that was due in the same poll cycle is still waiting to be started.
C26_DueTasksStartTogether ==
    sched_pc = "exec" => due = <<>>

\* C27: start_all() never raises; once it has passed the builtins all of them
\* are started; and the loop over the persisted subscriptions is only left by
\* finishing it, a subscription whose source started being registered.
C27_StartAllBestEffort ==
    /\ [](sa_pc # "raised")
    /\ [](sa_pc \in {"list", "loop", "started"} => builtins_started = BuiltinNames)
    /\ [][sa_pc = "loop" => /\ sa_pc' \in {"loop", "started"}
                            /\ (sa_pc' = "started" => sa_list = <<>>)]_vars

\* C28: when the execution of a due task raises, the loop goes on with the
\* due tasks that are left; a waiting due task leaves the list only by being
\* started, and the cycle ends, to sleep and poll again, only when none is left.
C28_FailureDoesNotStopLoop ==
    [][/\ (sched_pc = "exec" /\ execEnded' = "raised")
             => (sched_pc' = "iterate" /\ due' = due)
       /\ (due' # due /\ sched_pc # "sleep")
             => (due # <<>> /\ due' = Tail(due) /\ cur' = Head(due) /\ sched_pc' = "exec")
       /\ (sched_pc = "iterate" /\ sched_pc' = "sleep") => due = <<>>]_vars

\* A task has failed and another task is being executed.
C28_Witness ==
    /\ sched_pc = "exec"
    /\ \E t \in TaskIds : t # cur /\ tasks[t].status = "failed"

\* C29: when the execution of a one-time task raises, the task is left with
\* the status that get_due() selects, so that a later poll takes it again.
C29_FailedOneTimeRetryable ==
    [][(sched_pc = "exec" /\ execEnded' = "raised" /\ tasks[cur].repeat_seconds = 0)
          => tasks'[cur].status = "pending"]_vars

\* C30: the token of the last result of a key is in the token file of the key;
\* and a submit that opens a turn for a key, by a session object of this
\* process run or of one after a restart, resumes from that token.
C30_ResumesLastToken ==
    /\ [](\A k \in Keys : session_file[k] = returned_token[k])
    /\ [][\A o \in ObjIds :
            (s_turn[o] = "none" /\ s_turn'[o] = "connecting"
                /\ returned_token[s_key'[o]] # NoToken)
               => s_session_id'[o] = returned_token[s_key'[o]]]_vars

\* C31: the buffer file of a key holds messages exactly when the buffer of the
\* session registered for the key does, so that a session created for the key
\* after a crash loads what the registered session held.
C31_IncomingDurable ==
    \A k \in Keys : sessions[k] # NoObj => (incoming_file[k] <=> s_incoming[sessions[k]])

TextNext ==
    \/ \E k \in {"query", "stream"} : TextSubmit(k)
    \/ \E t \in Texts : TextBlockReceived(t)
    \/ TextFollowUp
    \/ TextReturn
    \/ TextError
    \/ TextDone

\* The texts one submit collects and the text it returns.
TextSpec == Init /\ [][TextNext]_vars

\* The positions of the non-empty texts received.
NonEmptyParts == {i \in 1..Len(text_parts) : text_parts[i] # ""}

\* C32: a submit that returns after the agent produced a non-empty text
\* returns the last non-empty text of its turns.
C32_ReturnsLastNonEmptyText ==
    (tx_pc = "done" /\ answer # ErrorText /\ NonEmptyParts # {})
        => \E i \in NonEmptyParts : /\ answer = text_parts[i]
                                    /\ \A j \in NonEmptyParts : j <= i

\* C33: a task whose cancel succeeded keeps the status cancelled: no later
\* step starts it or sets another status.
C33_CancelledStaysCancelled ==
    [][\A t \in TaskIds : tasks[t].status = "cancelled" => tasks'[t].status = "cancelled"]_vars

\* No call of start_all, subscribe or unsubscribe is in progress.
ManagerQuiet == sa_pc = "started" /\ \A c \in Subscribers : tm_pc[c] \in {"idle", "done"}

StopNext ==
    \/ \E i \in SourceIds : RegisterSource(i)
    \/ StopAllBegin
    \/ \E ok \in BOOLEAN : SafeStop(ok)
    \/ StorageClose

StopSpec == Init /\ [][StopNext]_vars

\* The calls stop_all is to make, in order, for the sources it found running.
StopOrder == sp_snapshot \o ReversedBuiltins \o <<StorageLabel>>

\* C35: stop_all calls stop on every dynamic source it found running, then on
\* the builtins in reverse registration order, then closes the storage; a stop
\* that raised leaves stop_all running, and when stop_all has returned all of
\* these calls have been made.
C35_StopOrder ==
    /\ Len(stop_log) <= Len(StopOrder)
    /\ stop_log = SubSeq(StopOrder, 1, Len(stop_log))
    /\ sp_raised # {} => sp_pc \in {"dynamic", "builtins", "storage", "stopped"}
    /\ sp_pc = "stopped" => stop_log = StopOrder

C35_Witness ==
    /\ sp_pc = "stopped"
    /\ Len(sp_snapshot) >= 2
    /\ \E i \in 1..Len(sp_snapshot) : sp_snapshot[i] \in sp_raised
    /\ BuiltinSource(2) \in sp_raised

\* C36: an interrupt signal is sent only while a turn is open: no call awaits
\* client.interrupt() after the ResultMessage of its turn was received and
\* before the next follow-up prompt is sent.
C36_InterruptOnlyInOpenTurn == \A c \in Callers : pc[c] # "interrupt_end"

AllNext ==
    \/ \E k \in SessionKeys : CreateSession(k)
    \/ \E k \in SessionKeys : ClientSet(k)
    \/ ResetAllBegin
    \/ ResetAllResumed
    \/ ResetAllEnd

AllSpec == Init /\ [][AllNext]_vars

\* C37: reset_all does not fail, a completed reset_all leaves the registry
\* empty, and no session is removed from the registry without having been
\* destroyed.
C37_ResetAllDestroysAll ==
    /\ [](ra_pc # "raised" /\ ra_removed \subseteq ra_destroyed)
    /\ [][(ra_pc # "done" /\ ra_pc' = "done") => ra_sessions' = <<>>]_vars

\* C38: a result text sent to the owner is never longer than the message-size
\* limit, the result prefix included.
C38_ResultWithinLimit ==
    \A i \in 1..Len(ownerSent) :
        ownerSent[i].kind = "result" => Len(ownerSent[i].text) <= MaxMessageLength

RecentNext == \E r \in Records : SaveTranscript(r)

RecentSpec == Init /\ [][RecentNext]_vars

\* The records of recent.jsonl as get_task_transcript reads them.
RecentRecords == IF recent_file = <<>> THEN <<>> ELSE SplitLines(StripNewlines(recent_file))

Min(a, b) == IF a < b THEN a ELSE b

\* C39: after any sequence of saves, recent.jsonl holds at most MaxRecent
\* records, and they are the records saved last, in save order.
C39_RecentLogKeepsNewest ==
    /\ Len(RecentRecords) <= MaxRecent
    /\ RecentRecords =
           [i \in 1..Min(Len(saved), MaxRecent) |->
                <<saved[Len(saved) - Min(Len(saved), MaxRecent) + i]>>]

C39_Witness ==
    /\ Len(saved) > MaxRecent + 1
    /\ Len(RecentRecords) = MaxRecent
    /\ saved[1] # saved[Len(saved)]

LoopNext ==
    \/ \E s \in LoopSources : LoopStart(s)
    \/ \E s \in LoopSources : LoopStop(s)
    \/ \E s \in LoopSources : \E t \in LoopTasks : LoopCancelled(s, t)
    \/ \E s \in LoopSources : LoopStopReturns(s)

LoopSpec == Init /\ [][LoopNext]_vars

\* C40: after any sequence of start and stop calls a source has at most one
\* polling loop; a loop runs while the source is started; after stop has
\* returned the source has none.
C40_AtMostOneLoop ==
    \A s \in LoopSources :
        /\ Cardinality(lp_alive[s]) <= 1
        /\ lp_running[s] => lp_alive[s] = {lp_task[s]}
        /\ lp_pc[s] = "stopped" => lp_alive[s] = {}

C40_Witness ==
    \E s \in LoopSources :
        /\ lp_calls[s] = MaxLoopCalls
        /\ lp_task[s] = 3
        /\ lp_alive[s] = {3}
        /\ lp_running[s]

====
